---- MODULE Spec2Model ----
(***************************************************************************)
(* Model of scripts/trigger_ai_analysis.py, extract_creatives_for_analysis *)
(* (the creative reconciler): the index-building loop over ad_creatives,   *)
(* the matching loop over meta_adsets and the final sort; of the two       *)
(* uploaders, upload_ad_creatives of scripts/upload_all_weeks.py and       *)
(* main / upload_report of scripts/supabase_uploader.py; of concurrent     *)
(* runs of main of scripts/daily_report.py; and of analyze_video_creative  *)
(* of scripts/video_analyzer.py.  Each of the five has its own             *)
(* specification (Spec and SpecTwice, SpecCreatives, SpecReport,           *)
(* SpecDaily, SpecVideo); the variables of the others are idle in it.      *)
(*                                                                         *)
(* Conventions.                                                            *)
(*  - Python strings are TLA+ strings.  The CJK characters of the keyword  *)
(*    list are written as one ASCII capital each, so that lengths and      *)
(*    substring relations are kept:                                        *)
(*      F X Z = U+82B3 U+9999 U+78DA,  N = U+6C1B,  Y H = U+512A U+5316,   *)
(*      U D = U+4E92 U+52D5,  R S = U+4EFB U+9078,  G E = U+7D44 U+5408.   *)
(*  - Fields are strings, or lists of items, as json.load yields them.  An *)
(*    identifier or name whose key is absent from the dict is Missing, and *)
(*    Get is dict.get with its default.  An absent or null URL is "": the  *)
(*    function only tests URLs for truth.                                  *)
(*  - A creative is referred to by its position in ad_creatives (the dicts *)
(*    of the indexes hold references to the list's objects); 0 is None.    *)
(*  - spend is kept in tenths of a currency unit; ctr, roas and cpm of a   *)
(*    group in thousandths, those of a result in hundredths.               *)
(***************************************************************************)
EXTENDS Integers, Sequences, FiniteSets, TLC

VARIABLES
    meta_adsets,              \* report["meta_adsets"], line 40
    ad_creatives,             \* report["ad_creatives"], line 39
    pc,                       \* position in the function
    k,                        \* loop position (creative or adset about to be handled)
    creative_by_ad_id,        \* dict, line 48
    creative_by_id_prefix,    \* dict, line 49
    creative_by_name_prefix,  \* dict, line 50, as its items() in insertion order
    used_creative_ids,        \* set, line 84
    creatives_for_analysis,   \* list, line 83; the returned list once pc = "done"
    run,                      \* which call of the function on the report this is
    first_output              \* the list the first call returned

callVars == <<run, first_output>>

\* upload_all_weeks.py, upload_ad_creatives
VARIABLES
    json_files,               \* ad_creatives_<date>.json of each week, as load_json yields it
    week,                     \* the week of the call, a position in WEEKS (0: no call yet)
    data,                     \* the loaded file, line 347
    cpc,                      \* position in upload_ad_creatives
    ci,                       \* loop position, line 358
    count,                    \* line 355; the returned value once cpc = "return"
    table_ad_creatives,       \* the rows of the store's table ad_creatives
    next_row_id,              \* the id the store gives to the next inserted row
    attempted,                \* positions of data whose upsert was tried in this call
    calls_done,               \* calls of upload_ad_creatives so far
    ids_at_start,             \* ids of the rows of the table when the call began
    uploaded,                 \* weeks whose file a call has upserted whole
    rerun                     \* the call is on a week that is in uploaded

cuVars == <<json_files, week, data, cpc, ci, count, table_ad_creatives, next_row_id,
            attempted, calls_done, ids_at_start, uploaded, rerun>>

\* supabase_uploader.py, main and upload_report
VARIABLES
    files_to_process,         \* the report files of this run of main, line 302
    dry_run,                  \* args.dry_run
    supabase,                 \* the client of main, lines 312-315 (Null: None)
    mpc,                      \* position in main and upload_report
    fi,                       \* position of main's loop, line 321
    step,                     \* the child table upload_report is at (sections 2-5)
    report_id,                \* line 120
    results,                  \* line 66; what upload_report returns
    total_results,            \* line 317
    success_count,            \* line 318
    error_count,              \* line 319
    reports,                  \* the rows of the store's table reports
    child_tables,             \* the rows of the five child tables
    next_report_id,           \* number of the id the store gives the next report row
    store_calls,              \* calls against the store in this run of main
    report_written,           \* this call of upload_report has written its report row
    mains_done                \* runs of main so far

ruVars == <<files_to_process, dry_run, supabase, mpc, fi, step, report_id, results,
            total_results, success_count, error_count, reports, child_tables,
            next_report_id, store_calls, report_written, mains_done>>

\* daily_report.py, main, run by several processes at once
VARIABLES
    main_runs,                \* of each run of main: its position, argv and locals
    output_files              \* the files of the working directory, by name

drVars == <<main_runs, output_files>>

\* video_analyzer.py, analyze_video_creative
VARIABLES
    video_creative,           \* the argument creative
    video_week_start,         \* the argument week_start
    vpc,                      \* position in analyze_video_creative
    video_locals,             \* video_url, thumbnail_url, video_path, thumbnail_path
    video_result,             \* the dict result, line 750
    video_calls               \* calls of analyze_video_creative so far

vaVars == <<video_creative, video_week_start, vpc, video_locals, video_result, video_calls>>

reconcilerVars ==
    <<meta_adsets, ad_creatives, pc, k, creative_by_ad_id, creative_by_id_prefix,
      creative_by_name_prefix, used_creative_ids, creatives_for_analysis, callVars>>

\* what the reconciler leaves alone, and what each of the other programs leaves
\* alone
uploaderVars == <<cuVars, ruVars, drVars, vaVars>>

outsideCreatives == <<reconcilerVars, ruVars, drVars, vaVars>>

outsideReport == <<reconcilerVars, cuVars, drVars, vaVars>>

outsideDaily == <<reconcilerVars, cuVars, ruVars, vaVars>>

outsideVideo == <<reconcilerVars, cuVars, ruVars, drVars>>

vars == <<reconcilerVars, cuVars, ruVars, drVars, vaVars>>

---------------------------------------------------------------------------
(* Bounds of the model and constants of the program *)

MaxAdsets == 2
MaxCreatives == 2
MaxFileRecords == 2     \* records of an ad_creatives_<date>.json file
MaxCalls == 3           \* calls of upload_ad_creatives
MaxFiles == 2           \* report files given to one run of supabase_uploader's main
MaxMains == 2           \* runs of supabase_uploader's main
MaxRuns == 2            \* concurrent runs of daily_report's main
MaxVideoCalls == 2      \* calls of analyze_video_creative

IdPrefixLen == 12
NamePrefixLen == 20
MaxCarousel == 7

\* the value of an absent key, and JSON null; no string of the inputs equals them
Missing == "<missing>"
Null == "<null>"

\* d.get(key, default), v being d's value for the key
Get(v, default) == IF v = Missing THEN default ELSE v

keywords == <<"FXZ", "XNZ", "LM", "YH", "UD", "RS", "GE">>

---------------------------------------------------------------------------
(* String helpers: Python's s[:n], `sub in s`, s.startswith(p) *)

Take(s, n) == IF Len(s) >= n THEN SubSeq(s, 1, n) ELSE s

Contains(s, sub) ==
    \E p \in 1..(Len(s) - Len(sub) + 1) : SubSeq(s, p, p + Len(sub) - 1) = sub

StartsWith(s, p) == Len(s) >= Len(p) /\ SubSeq(s, 1, Len(p)) = p

UnderscoresOf(s) == {p \in 1..Len(s) : SubSeq(s, p, p) = "_"}

SetMin(S) == CHOOSE x \in S : \A y \in S : x <= y

\* "_".join(name.split("_")[:2]): the name up to its second underscore
FirstTwoSegments(s) ==
    LET us == UnderscoresOf(s)
    IN  IF Cardinality(us) >= 2
        THEN SubSeq(s, 1, SetMin(us \ {SetMin(us)}) - 1)
        ELSE s

\* mutation of IdPrefix: one character short
IdPrefixShort(id) ==
    IF Len(id) >= IdPrefixLen - 1 THEN SubSeq(id, 1, IdPrefixLen - 1) ELSE id

IdPrefix(id) == IF Len(id) >= IdPrefixLen THEN SubSeq(id, 1, IdPrefixLen) ELSE id

NamePrefix(name) ==
    IF Contains(name, "_") THEN FirstTwoSegments(name) ELSE Take(name, NamePrefixLen)

---------------------------------------------------------------------------
(* The inputs: report["meta_adsets"] and report["ad_creatives"] are drawn, *)
(* as lists of distinct records, from two catalogues of records.           *)

Img(u) == [isdict |-> TRUE, url |-> u]     \* {"image_url": u} or {"url": u}
Str(u) == [isdict |-> FALSE, url |-> u]    \* a bare string item

\* spend is in tenths, ctr (a percentage), roas and cpm are in thousandths
Adset(id, name, spend, impressions, purchases, clicks, ctr, roas, cpm) ==
    [adset_id |-> id, adset_name |-> name, spend |-> spend,
     impressions |-> impressions, purchases |-> purchases, clicks |-> clicks,
     ctr |-> ctr, roas |-> roas, cpm |-> cpm]

Creative(id, name, body, title, backed, images, backedMain, main) ==
    [ad_id |-> id, ad_name |-> name, body |-> body, title |-> title,
     supabase_carousel_urls |-> backed, carousel_images |-> images,
     supabase_image_url |-> backedMain, image_url |-> main]

AdsetCatalog ==
    << Adset("1202123456780001", "LM_XNZ_0212", 102, 1000, 3, 25, 2512, 3456, 12344),
       Adset("1202123456780002", "UDpost", 104, 2000, 0, 31, 1549, 0, 8127),
       Adset("1202123456790009", "awareness_q1", 2000, 50000, 12, 700, 1401, 1250, 40000),
       Adset(Missing, "LM_XNZ_0301", 500, 700, 1, 7, 1000, 2999, 5001),
       Adset("1202123456780001", "LM_XNZ_0212", 0, 0, 0, 0, 0, 0, 0),
       Adset("1202123456790001", "videoUD", -10, 10, 0, 1, 10000, 0, 2000),
       Adset("9001", "FXZRSGEbigsalecampaignNEW", 5, 40, 0, 0, 0, 12, 996) >>

CreativeCatalog ==
    << Creative("1202123456780001", "LM_XNZ_carousel", "copyA", "titleA", <<>>,
                <<Img("http://m/a1.jpg"), Img("http://m/a2.jpg")>>, "", "http://m/a.jpg"),
       Creative("1202123456780003", "promo_XNZ_a", "", "titleC", <<>>, <<>>, "", ""),
       Creative("1202123456790001", "videoUD", "copyD", "",
                <<Str("http://s/1"), Str("http://s/2"), Str("http://s/3"), Str("http://s/4"),
                  Str("http://s/5"), Str("http://s/6"), Str("http://s/7"), Str("http://s/8")>>,
                <<Img("http://m/d1.jpg")>>, "", "http://m/d.jpg"),
       Creative(Missing, "LM_XNZ", "", "", <<>>,
                <<Img("http://m/1"), Img(""), Str("http://m/2"), Str("ftp://m/x"),
                  Img("http://m/3"), Img("http://m/4"), Img("http://m/5"), Img("/rel/6"),
                  Img("http://m/6"), Img("http://m/7"), Img("http://m/8")>>, "", ""),
       Creative("1202123456780001", "LM_XNZ_b", "", "",
                <<Img("http://s/d1"), Img(""), Img("http://s/d2")>>, <<>>, "", ""),
       Creative("1202123456790002", "FXZRSGEbigsalecampaign2024", "", "", <<>>, <<>>,
                "", "http://m/e.jpg"),
       Creative("9001", "LM", "", "", <<>>, <<Str("data:x")>>,
                "http://s/main.jpg", "http://m/s.jpg") >>

IsInjective(f) == \A a, b \in DOMAIN f : a # b => f[a] # f[b]

\* the lists of at most n distinct records of a catalogue
ListsOver(catalog, n) ==
    { [j \in DOMAIN f |-> catalog[f[j]]] :
        f \in UNION { {g \in [1..len -> DOMAIN catalog] : IsInjective(g)} : len \in 0..n } }

\* extract_creatives_for_analysis is not called
ReconcilerIdle ==
    /\ meta_adsets = <<>>
    /\ ad_creatives = <<>>
    /\ pc = "idle"
    /\ k = 1
    /\ creative_by_ad_id = <<>>
    /\ creative_by_id_prefix = <<>>
    /\ creative_by_name_prefix = <<>>
    /\ used_creative_ids = {}
    /\ creatives_for_analysis = <<>>
    /\ run = 1
    /\ first_output = <<>>

\* upload_ad_creatives is not called
CreativesUploaderIdle ==
    /\ json_files = <<>>
    /\ week = 0
    /\ data = <<>>
    /\ cpc = "idle"
    /\ ci = 1
    /\ count = 0
    /\ table_ad_creatives = <<>>
    /\ next_row_id = 1
    /\ attempted = {}
    /\ calls_done = 0
    /\ ids_at_start = {}
    /\ uploaded = {}
    /\ rerun = FALSE

\* the five child tables of upload_report, in the order it writes them
ChildTables ==
    <<"meta_campaigns", "meta_audience_age", "meta_audience_gender", "ga4_channels",
      "product_rankings">>

\* supabase_uploader's main is not run
ReportUploaderIdle ==
    /\ files_to_process = <<>>
    /\ dry_run = FALSE
    /\ supabase = Null
    /\ mpc = "idle"
    /\ fi = 1
    /\ step = 1
    /\ report_id = Null
    /\ results = <<>>
    /\ total_results = <<>>
    /\ success_count = 0
    /\ error_count = 0
    /\ reports = <<>>
    /\ child_tables = [j \in DOMAIN ChildTables |-> <<>>]
    /\ next_report_id = 1
    /\ store_calls = 0
    /\ report_written = FALSE
    /\ mains_done = 0

\* no run of daily_report's main
DailyReportIdle ==
    /\ main_runs = <<>>
    /\ output_files = <<>>

\* analyze_video_creative is not called
VideoAnalyzerIdle ==
    /\ video_creative = Null
    /\ video_week_start = Null
    /\ vpc = "idle"
    /\ video_locals = Null
    /\ video_result = Null
    /\ video_calls = 0

Init ==
    /\ CreativesUploaderIdle
    /\ ReportUploaderIdle
    /\ DailyReportIdle
    /\ VideoAnalyzerIdle
    /\ meta_adsets \in ListsOver(AdsetCatalog, MaxAdsets)
    /\ ad_creatives \in ListsOver(CreativeCatalog, MaxCreatives)
    /\ pc = "start"
    /\ k = 1
    /\ creative_by_ad_id = <<>>
    /\ creative_by_id_prefix = <<>>
    /\ creative_by_name_prefix = <<>>
    /\ used_creative_ids = {}
    /\ creatives_for_analysis = <<>>
    /\ run = 1
    /\ first_output = <<>>

---------------------------------------------------------------------------
(* Step 1: the indexes (lines 46-75) *)

\* d[key] = value on a dict kept as a function
DictPut(d, key, value) ==
    [x \in (DOMAIN d) \cup {key} |-> IF x = key THEN value ELSE d[x]]

\* d[prefix] = c on a dict kept as its items() in insertion order: an existing
\* key keeps its place and takes the new value
ItemsPut(items, prefix, c) ==
    IF \E j \in DOMAIN items : items[j].prefix = prefix
    THEN [j \in DOMAIN items |->
            IF items[j].prefix = prefix THEN [prefix |-> prefix, creative |-> c]
            ELSE items[j]]
    ELSE Append(items, [prefix |-> prefix, creative |-> c])

\* mutation of PutIdPrefix: the last creative of a prefix is kept
PutIdPrefixLast(index, c) ==
    DictPut(index, IdPrefix(Get(ad_creatives[c].ad_id, "")), c)

\* lines 61-70: the first creative of a prefix is kept unless the new one has a
\* body and the kept one has none, or has carousel images and the kept one has none
PutIdPrefix(index, c) ==
    LET creative == ad_creatives[c]
        id_prefix == IdPrefix(Get(creative.ad_id, ""))
    IN  IF id_prefix \notin DOMAIN index
        THEN DictPut(index, id_prefix, c)
        ELSE LET existing == ad_creatives[index[id_prefix]]
             IN  IF creative.body # "" /\ existing.body = ""
                 THEN DictPut(index, id_prefix, c)
                 ELSE IF creative.carousel_images # <<>> /\ existing.carousel_images = <<>>
                      THEN DictPut(index, id_prefix, c)
                      ELSE index

\* mutation of HasAdId: the guard of line 56 dropped
HasAdIdAlways(creative) == TRUE

\* line 56: if ad_id:
HasAdId(creative) == Get(creative.ad_id, "") # ""

\* mutation of NoAdsetsResult: without groups every creative of the pool is
\* reported, as before the function was driven by meta_adsets
NoAdsetsResultFromPool ==
    [c \in DOMAIN ad_creatives |->
        [ad_id |-> Get(ad_creatives[c].ad_id, ""), matched |-> c, how |-> "none"]]

\* line 44: return []
NoAdsetsResult == <<>>

\* lines 42-44
NoAdsets ==
    /\ pc = "start"
    /\ meta_adsets = <<>>
    /\ pc' = "done"
    /\ creatives_for_analysis' = NoAdsetsResult
    /\ UNCHANGED <<uploaderVars, callVars>>
    /\ UNCHANGED <<meta_adsets, ad_creatives, k, creative_by_ad_id, creative_by_id_prefix,
                   creative_by_name_prefix, used_creative_ids>>

\* lines 46-50
BeginIndexing ==
    /\ pc = "start"
    /\ meta_adsets # <<>>
    /\ pc' = "index"
    /\ k' = 1
    /\ creative_by_ad_id' = <<>>
    /\ creative_by_id_prefix' = <<>>
    /\ creative_by_name_prefix' = <<>>
    /\ UNCHANGED <<uploaderVars, callVars>>
    /\ UNCHANGED <<meta_adsets, ad_creatives, used_creative_ids, creatives_for_analysis>>

\* lines 52-75, one creative
IndexCreative ==
    /\ pc = "index"
    /\ k <= Len(ad_creatives)
    /\ LET creative == ad_creatives[k]
       IN  /\ creative_by_ad_id' =
                IF HasAdId(creative) THEN DictPut(creative_by_ad_id, Get(creative.ad_id, ""), k)
                ELSE creative_by_ad_id
           /\ creative_by_id_prefix' =
                IF HasAdId(creative) THEN PutIdPrefix(creative_by_id_prefix, k)
                ELSE creative_by_id_prefix
           /\ creative_by_name_prefix' =
                IF Get(creative.ad_name, "") # ""
                THEN ItemsPut(creative_by_name_prefix, NamePrefix(creative.ad_name), k)
                ELSE creative_by_name_prefix
    /\ k' = k + 1
    /\ UNCHANGED <<uploaderVars, callVars>>
    /\ UNCHANGED <<meta_adsets, ad_creatives, pc, used_creative_ids, creatives_for_analysis>>

\* mutation of NewClaimedSet: the set outlives the call (a module-level set)
KeptClaimedSet == used_creative_ids

\* line 84: used_creative_ids = set()
NewClaimedSet == {}

\* lines 77-84
BeginMatching ==
    /\ pc = "index"
    /\ k > Len(ad_creatives)
    /\ pc' = "match"
    /\ k' = 1
    /\ creatives_for_analysis' = <<>>
    /\ used_creative_ids' = NewClaimedSet
    /\ UNCHANGED <<uploaderVars, callVars>>
    /\ UNCHANGED <<meta_adsets, ad_creatives, creative_by_ad_id, creative_by_id_prefix,
                   creative_by_name_prefix>>

---------------------------------------------------------------------------
(* Step 2: the four strategies (lines 95-134); each yields a creative or 0 *)

FirstOf(S) == IF S = {} THEN 0 ELSE SetMin(S)

\* lines 87-88
AdsetId(adset) == Get(adset.adset_id, "")

AdsetName(adset) == Get(adset.adset_name, "")

\* mutation of ExactMatch: a creative that is already claimed is passed over
ExactMatchUnclaimed(adset_id) ==
    IF adset_id \in DOMAIN creative_by_ad_id /\ adset_id \notin used_creative_ids
    THEN creative_by_ad_id[adset_id]
    ELSE 0

\* lines 99-100
ExactMatch(adset_id) ==
    IF adset_id \in DOMAIN creative_by_ad_id THEN creative_by_ad_id[adset_id] ELSE 0

\* lines 104-106
PrefixMatch(adset_id) ==
    IF IdPrefix(adset_id) \in DOMAIN creative_by_id_prefix
    THEN creative_by_id_prefix[IdPrefix(adset_id)]
    ELSE 0

\* lines 112-114
NameSimilar(adset_name, prefix, ad_name) ==
    \/ Contains(prefix, NamePrefix(adset_name))
    \/ Contains(NamePrefix(adset_name), prefix)
    \/ Contains(ad_name, adset_name)
    \/ Contains(adset_name, ad_name)

\* mutation of NameMatch: the test of line 116 dropped, a claimed creative is taken
NameMatchClaimed(adset_name, used) ==
    LET hits == { j \in DOMAIN creative_by_name_prefix :
                    LET item == creative_by_name_prefix[j]
                    IN  NameSimilar(adset_name, item.prefix,
                                    Get(ad_creatives[item.creative].ad_name, "")) }
    IN  IF hits = {} THEN 0 ELSE creative_by_name_prefix[SetMin(hits)].creative

\* lines 110-117: the first item of the name index that is similar and unclaimed
NameMatch(adset_name, used) ==
    LET hits == { j \in DOMAIN creative_by_name_prefix :
                    LET item == creative_by_name_prefix[j]
                    IN  /\ NameSimilar(adset_name, item.prefix,
                                       Get(ad_creatives[item.creative].ad_name, ""))
                        /\ Get(ad_creatives[item.creative].ad_id, "") \notin used }
    IN  IF hits = {} THEN 0 ELSE creative_by_name_prefix[SetMin(hits)].creative

\* lines 129-132
SharesKeyword(adset_name, creative_name) ==
    \E j \in DOMAIN keywords :
        Contains(adset_name, keywords[j]) /\ Contains(creative_name, keywords[j])

\* lines 121-134: the first unclaimed creative of the pool sharing a keyword
KeywordMatch(adset_name, used) ==
    FirstOf({ c \in DOMAIN ad_creatives :
                /\ Get(ad_creatives[c].ad_id, "") \notin used
                /\ SharesKeyword(adset_name, Get(ad_creatives[c].ad_name, "")) })

\* mutation of MatchCreative: the name scan consulted before the id prefix
MatchCreativeNameFirst(adset, used) ==
    IF ExactMatch(AdsetId(adset)) # 0
    THEN [creative |-> ExactMatch(AdsetId(adset)), how |-> "exact"]
    ELSE IF NameMatch(AdsetName(adset), used) # 0
    THEN [creative |-> NameMatch(AdsetName(adset), used), how |-> "name"]
    ELSE IF PrefixMatch(AdsetId(adset)) # 0
    THEN [creative |-> PrefixMatch(AdsetId(adset)), how |-> "prefix"]
    ELSE IF KeywordMatch(AdsetName(adset), used) # 0
    THEN [creative |-> KeywordMatch(AdsetName(adset), used), how |-> "keyword"]
    ELSE [creative |-> 0, how |-> "none"]

\* lines 96-134: the cascade; `how` names the strategy that decided
MatchCreative(adset, used) ==
    IF ExactMatch(AdsetId(adset)) # 0
    THEN [creative |-> ExactMatch(AdsetId(adset)), how |-> "exact"]
    ELSE IF PrefixMatch(AdsetId(adset)) # 0
    THEN [creative |-> PrefixMatch(AdsetId(adset)), how |-> "prefix"]
    ELSE IF NameMatch(AdsetName(adset), used) # 0
    THEN [creative |-> NameMatch(AdsetName(adset), used), how |-> "name"]
    ELSE IF KeywordMatch(AdsetName(adset), used) # 0
    THEN [creative |-> KeywordMatch(AdsetName(adset), used), how |-> "keyword"]
    ELSE [creative |-> 0, how |-> "none"]

---------------------------------------------------------------------------
(* Media resolution and the result record (lines 140-199) *)

UrlsOf(items) == [j \in DOMAIN items |-> items[j].url]

IsTruthyUrl(item) == item.url # ""

\* mutation of IsHttpUrl: the test of the scheme dropped
IsHttpUrlAnyScheme(item) == item.url # ""

\* line 162
IsHttpUrl(item) == item.url # "" /\ StartsWith(item.url, "http")

\* mutation of ResolveMedia: the original items are preferred to the backed-up URLs
ResolveMediaOriginalFirst(creative) ==
    LET urls == UrlsOf(SelectSeq(creative.carousel_images, IsHttpUrl))
        main_url == IF creative.supabase_image_url # ""
                    THEN creative.supabase_image_url
                    ELSE creative.image_url
    IN  IF urls # <<>> THEN urls
        ELSE IF creative.supabase_carousel_urls # <<>>
        THEN IF creative.supabase_carousel_urls[1].isdict
             THEN UrlsOf(SelectSeq(creative.supabase_carousel_urls, IsTruthyUrl))
             ELSE UrlsOf(creative.supabase_carousel_urls)
        ELSE IF main_url # "" THEN <<main_url>> ELSE <<>>

\* mutation of ResolveMedia: lines 165-169 dropped, no main image is used
ResolveMediaNoFallback(creative) ==
    IF creative.supabase_carousel_urls # <<>>
    THEN IF creative.supabase_carousel_urls[1].isdict
         THEN UrlsOf(SelectSeq(creative.supabase_carousel_urls, IsTruthyUrl))
         ELSE UrlsOf(creative.supabase_carousel_urls)
    ELSE UrlsOf(SelectSeq(creative.carousel_images, IsHttpUrl))

\* lines 152-169
ResolveMedia(creative) ==
    IF creative.supabase_carousel_urls # <<>>
    THEN IF creative.supabase_carousel_urls[1].isdict
         THEN UrlsOf(SelectSeq(creative.supabase_carousel_urls, IsTruthyUrl))
         ELSE UrlsOf(creative.supabase_carousel_urls)
    ELSE LET urls == UrlsOf(SelectSeq(creative.carousel_images, IsHttpUrl))
             main_url == IF creative.supabase_image_url # ""
                         THEN creative.supabase_image_url
                         ELSE creative.image_url
         IN  IF urls # <<>> THEN urls
             ELSE IF main_url # "" THEN <<main_url>> ELSE <<>>

\* mutation of Truncate: the slice dropped
TruncateNone(urls) == urls

\* line 184: carousel_images[:7]
Truncate(urls) == Take(urls, MaxCarousel)

\* round(spend, 0) on a spend in tenths: to the nearest whole, ties to even
Round0(tenths) ==
    LET q == tenths \div 10
        r == tenths % 10
    IN  IF r < 5 THEN q
        ELSE IF r > 5 THEN q + 1
        ELSE IF q % 2 = 0 THEN q ELSE q + 1

\* round(x, 2) of lines 189, 191 and 195 for x given in thousandths, the result in
\* hundredths; a third decimal of 5 is no tie for the float and is not among the
\* inputs
Round2(thousandths) ==
    LET q == thousandths \div 10
        r == thousandths % 10
    IN  IF r < 5 THEN q ELSE q + 1

\* line 176: int(impressions * ctr / 100) if impressions and ctr else 0
ApproxClicks(adset) ==
    IF adset.impressions # 0 /\ adset.ctr # 0
    THEN (adset.impressions * adset.ctr) \div 100000
    ELSE 0

\* lines 178 and 190: round(purchases / clicks * 100, 2) in hundredths, 0 without
\* clicks; the quotients of the inputs have no tie
Cvr(adset) ==
    LET clicks == ApproxClicks(adset)
        n == adset.purchases * 10000
    IN  IF clicks > 0
        THEN IF 2 * (n % clicks) < clicks THEN n \div clicks ELSE n \div clicks + 1
        ELSE 0

\* mutation of Metrics: the group's clicks copied into the result
MetricsWithClicks(adset) ==
    [ctr |-> Round2(adset.ctr), cvr |-> Cvr(adset), roas |-> Round2(adset.roas),
     spend |-> Round0(adset.spend), purchases |-> adset.purchases,
     impressions |-> adset.impressions, cpm |-> Round2(adset.cpm),
     clicks |-> adset.clicks]

\* lines 187-196: ctr, cvr, roas and cpm in hundredths
Metrics(adset) ==
    [ctr |-> Round2(adset.ctr), cvr |-> Cvr(adset), roas |-> Round2(adset.roas),
     spend |-> Round0(adset.spend), purchases |-> adset.purchases,
     impressions |-> adset.impressions, cpm |-> Round2(adset.cpm)]

\* mutations of ResultAdId: no default of line 143, and a null default
ResultAdIdNoDefault(adset, m) ==
    IF m # 0 THEN Get(ad_creatives[m].ad_id, AdsetId(adset)) ELSE ""

ResultAdIdNull(adset, m) ==
    IF m # 0 THEN Get(ad_creatives[m].ad_id, AdsetId(adset)) ELSE Null

\* lines 143-148: the identifiers and the copy of a result
ResultAdId(adset, m) ==
    IF m # 0 THEN Get(ad_creatives[m].ad_id, AdsetId(adset)) ELSE AdsetId(adset)

ResultAdName(adset, m) ==
    IF m # 0 THEN Get(ad_creatives[m].ad_name, AdsetName(adset)) ELSE AdsetName(adset)

ResultCopy(m) ==
    IF m = 0 THEN ""
    ELSE IF ad_creatives[m].body # "" THEN ad_creatives[m].body ELSE ad_creatives[m].title

ResultMedia(m) == IF m = 0 THEN <<>> ELSE ResolveMedia(ad_creatives[m])

\* mutation of ImageCount: the URLs counted after the slice of line 184
ImageCountTruncated(urls) == Len(Truncate(urls))

\* line 185: len(carousel_images)
ImageCount(urls) == Len(urls)

\* lines 180-199; group, matched and how are not fields of the dict: they record
\* the loop position, the local matched_creative and the deciding strategy
BuildResult(g, match) ==
    LET adset == meta_adsets[g]
        m == match.creative
    IN  [ad_id |-> ResultAdId(adset, m),
         adset_id |-> AdsetId(adset),
         ad_name |-> ResultAdName(adset, m),
         carousel_images |-> Truncate(ResultMedia(m)),
         image_count |-> ImageCount(ResultMedia(m)),
         is_carousel |-> Len(ResultMedia(m)) > 1,
         metrics |-> Metrics(adset),
         copy |-> ResultCopy(m),
         group |-> g,
         matched |-> m,
         how |-> match.how]

\* mutations of IsSkipped: spend < 0, and spend == 0
IsSkippedNegativeOnly(adset) == adset.spend < 0

IsSkippedZeroOnly(adset) == adset.spend = 0

\* line 92: if spend <= 0: continue
IsSkipped(adset) == adset.spend <= 0

\* mutation of Claim: the match is not recorded
ClaimNothing(used, m) == used

\* lines 137-138
Claim(used, m) == IF m # 0 THEN used \cup {Get(ad_creatives[m].ad_id, "")} ELSE used

\* lines 86-93, a group without spend
SkipAdset ==
    /\ pc = "match"
    /\ k <= Len(meta_adsets)
    /\ IsSkipped(meta_adsets[k])
    /\ k' = k + 1
    /\ UNCHANGED <<uploaderVars, callVars>>
    /\ UNCHANGED <<meta_adsets, ad_creatives, pc, creative_by_ad_id, creative_by_id_prefix,
                   creative_by_name_prefix, used_creative_ids, creatives_for_analysis>>

\* lines 86-199, a group with spend
MatchAdset ==
    /\ pc = "match"
    /\ k <= Len(meta_adsets)
    /\ ~IsSkipped(meta_adsets[k])
    /\ LET match == MatchCreative(meta_adsets[k], used_creative_ids)
       IN  /\ used_creative_ids' = Claim(used_creative_ids, match.creative)
           /\ creatives_for_analysis' = Append(creatives_for_analysis, BuildResult(k, match))
    /\ k' = k + 1
    /\ UNCHANGED <<uploaderVars, callVars>>
    /\ UNCHANGED <<meta_adsets, ad_creatives, pc, creative_by_ad_id, creative_by_id_prefix,
                   creative_by_name_prefix>>

---------------------------------------------------------------------------
(* The sort and the return (lines 201-205) *)

\* x goes after the elements whose key is at least its own
InsertBySpend(sorted, x) ==
    LET n == Cardinality({ j \in DOMAIN sorted :
                             sorted[j].metrics.spend >= x.metrics.spend })
    IN  SubSeq(sorted, 1, n) \o <<x>> \o SubSeq(sorted, n + 1, Len(sorted))

RECURSIVE StableSortDesc(_)
StableSortDesc(list) ==
    IF list = <<>> THEN <<>>
    ELSE InsertBySpend(StableSortDesc(SubSeq(list, 1, Len(list) - 1)), list[Len(list)])

\* mutation of SortBySpend: the sort dropped
SortSkipped(list) == list

\* line 202: list.sort(key=metrics.spend, reverse=True), a stable sort
SortBySpend(list) == StableSortDesc(list)

\* mutation of SortAndReturn: the groups of the report are reversed in place
SortAndReverseGroups ==
    /\ pc = "match"
    /\ k > Len(meta_adsets)
    /\ creatives_for_analysis' = SortBySpend(creatives_for_analysis)
    /\ meta_adsets' = [j \in DOMAIN meta_adsets |-> meta_adsets[Len(meta_adsets) + 1 - j]]
    /\ pc' = "done"
    /\ UNCHANGED <<uploaderVars, callVars>>
    /\ UNCHANGED <<ad_creatives, k, creative_by_ad_id, creative_by_id_prefix,
                   creative_by_name_prefix, used_creative_ids>>

\* lines 201-205
SortAndReturn ==
    /\ pc = "match"
    /\ k > Len(meta_adsets)
    /\ creatives_for_analysis' = SortBySpend(creatives_for_analysis)
    /\ pc' = "done"
    /\ UNCHANGED <<uploaderVars, callVars>>
    /\ UNCHANGED <<meta_adsets, ad_creatives, k, creative_by_ad_id, creative_by_id_prefix,
                   creative_by_name_prefix, used_creative_ids>>

Next ==
    \/ NoAdsets
    \/ BeginIndexing
    \/ IndexCreative
    \/ BeginMatching
    \/ SkipAdset
    \/ MatchAdset
    \/ SortAndReturn

Spec == Init /\ [][Next]_vars

\* generate_ai_task (line 210) calling the function once more on the same report:
\* the locals of the first call are gone, and those of the new call hold nothing
\* that is read before lines 48-50 and 83-84 assign them
CallAgain ==
    /\ pc = "done"
    /\ run = 1
    /\ run' = 2
    /\ first_output' = creatives_for_analysis
    /\ pc' = "start"
    /\ k' = 1
    /\ UNCHANGED uploaderVars
    /\ UNCHANGED <<meta_adsets, ad_creatives, creative_by_ad_id, creative_by_id_prefix,
                   creative_by_name_prefix, used_creative_ids, creatives_for_analysis>>

NextTwice == Next \/ CallAgain

SpecTwice == Init /\ [][NextTwice]_vars

---------------------------------------------------------------------------
(* upload_all_weeks.py: upload_ad_creatives (lines 344-431) with           *)
(* download_image and upload_image_to_storage (lines 306-341).             *)
(*                                                                         *)
(* A record of the file has the fields the function reads: ad_id,          *)
(* creative_id, ad_name, image_url (a string, Null or Missing) and         *)
(* carousel_images (items as in the reconciler: dicts or bare strings).    *)
(* The outcome of a download, of a storage upload and of the store calls   *)
(* of the upsert is the environment's choice.  The md5 digest in the       *)
(* storage file name is written as the URL itself; the AI analysis fields  *)
(* and the metrics of the record are copied values and are left out.       *)
(* Every record of the catalogue has an ad_id or a creative_id.            *)

\* lines 39-44, the first two weeks
WEEKS == <<"2026-01-15", "2026-01-22">>

\* Python truth of a string-or-None value
IsTruthy(v) == v \notin {Missing, Null, ""}

\* dict.get(key) without a default
GetOrNone(v) == IF v = Missing THEN Null ELSE v

FileCreative(ad_id, creative_id, ad_name, image_url, carousel_images) ==
    [ad_id |-> ad_id, creative_id |-> creative_id, ad_name |-> ad_name,
     image_url |-> image_url, carousel_images |-> carousel_images]

FileCatalog ==
    << FileCreative("a1", Missing, "n1", "http://m/a.jpg", <<>>),
       FileCreative("a2", "a2", "n2", "",
                    <<Str("http://m/c1.jpg"), Str("http://m/c2.jpg")>>),
       FileCreative("", "cr3", "n3", Missing, <<>>),
       FileCreative("a1", Missing, "n1b", "http://m/b.jpg", <<Img(""), Str("")>>),
       FileCreative("a5", "cr5", "n5", Null,
                    <<Img("http://m/d.jpg"), Img("http://m/e.jpg")>>) >>

\* a row of the table ad_creatives
Row(id, report_date, ad_id, creative_name, image_url, thumbnail_url, carousel) ==
    [id |-> id, report_date |-> report_date, ad_id |-> ad_id,
     creative_name |-> creative_name, image_url |-> image_url,
     thumbnail_url |-> thumbnail_url, carousel_images |-> carousel]

\* the tables without duplicates a first call may find
InitialTables ==
    { <<>>,
      << Row(1, WEEKS[1], "a1", "old", "http://m/old.jpg", "http://m/old.jpg", <<>>) >> }

InitCreatives ==
    /\ ReconcilerIdle
    /\ ReportUploaderIdle
    /\ DailyReportIdle
    /\ VideoAnalyzerIdle
    /\ json_files \in { <<first, second>> :
                          first \in ListsOver(FileCatalog, MaxFileRecords),
                          second \in { <<>>, <<FileCatalog[1]>> } }
    /\ table_ad_creatives \in InitialTables
    /\ next_row_id = Len(table_ad_creatives) + 1
    /\ week = 0
    /\ data = <<>>
    /\ cpc = "idle"
    /\ ci = 1
    /\ count = 0
    /\ attempted = {}
    /\ calls_done = 0
    /\ ids_at_start = {}
    /\ uploaded = {}
    /\ rerun = FALSE

\* line 359: creative.get('ad_id') or creative.get('creative_id')
FileAdId(creative) ==
    IF IsTruthy(creative.ad_id) THEN creative.ad_id ELSE GetOrNone(creative.creative_id)

\* lines 362-364: the image URL, or the first item of carousel_images as it is
ImageUrl(creative) ==
    IF ~IsTruthy(creative.image_url) /\ creative.carousel_images # <<>>
    THEN creative.carousel_images[1]
    ELSE Str(GetOrNone(creative.image_url))

\* line 368: if image_url (a dict with keys is true)
HasImageUrl(creative) == ImageUrl(creative).isdict \/ IsTruthy(ImageUrl(creative).url)

\* line 369: image_url.encode() on a dict raises AttributeError
RaisesOnImageUrl(creative) == HasImageUrl(creative) /\ ImageUrl(creative).isdict

\* lines 369-370 and 334-335: the public URL of the stored file
StorageUrl(date, ad_id, url) == "storage/" \o date \o "/" \o ad_id \o "_" \o url

\* lines 380-388
CarouselUrls(creative) ==
    LET keep(item) == IF item.isdict THEN IsTruthy(item.url) ELSE TRUE
    IN  UrlsOf(SelectSeq(creative.carousel_images, keep))

\* lines 393-417: the record of a creative; storage_url is Null when nothing was stored
FileRecord(creative, date, storage_url) ==
    LET image_url == ImageUrl(creative).url
    IN  [report_date |-> date, ad_id |-> FileAdId(creative),
         creative_name |-> GetOrNone(creative.ad_name),
         image_url |-> IF IsTruthy(storage_url) THEN storage_url ELSE image_url,
         thumbnail_url |-> image_url,
         carousel_images |-> CarouselUrls(creative)]

\* mutation of SelectExisting: the select finds nothing
SelectNothing(table, date, ad_id) == {}

\* line 421: positions of the rows with this report_date and ad_id
SelectExisting(table, date, ad_id) ==
    { j \in DOMAIN table : table[j].report_date = date /\ table[j].ad_id = ad_id }

\* lines 422-425: update the first row found, by its id, or insert
UpsertRow(table, record, id) ==
    LET existing == SelectExisting(table, record.report_date, record.ad_id)
        row(rid) == Row(rid, record.report_date, record.ad_id, record.creative_name,
                        record.image_url, record.thumbnail_url, record.carousel_images)
    IN  IF existing # {}
        THEN [j \in DOMAIN table |->
                 IF table[j].id = table[SetMin(existing)].id
                 THEN row(table[j].id) ELSE table[j]]
        ELSE Append(table, row(id))

RowIds(table) == { table[j].id : j \in DOMAIN table }

\* lines 346-351: the file of the week is missing or empty
FileNotFound ==
    /\ cpc \in {"idle", "return", "raised"}
    /\ calls_done < MaxCalls
    /\ \E w \in DOMAIN WEEKS :
          /\ json_files[w] = <<>>
          /\ week' = w
          /\ data' = json_files[w]
          /\ rerun' = (w \in uploaded)
    /\ cpc' = "return"
    /\ count' = 0
    /\ ci' = 1
    /\ attempted' = {}
    /\ calls_done' = calls_done + 1
    /\ ids_at_start' = RowIds(table_ad_creatives)
    /\ UNCHANGED <<json_files, table_ad_creatives, next_row_id, uploaded>>
    /\ UNCHANGED outsideCreatives

\* lines 346-356
BeginUpload ==
    /\ cpc \in {"idle", "return", "raised"}
    /\ calls_done < MaxCalls
    /\ \E w \in DOMAIN WEEKS :
          /\ json_files[w] # <<>>
          /\ week' = w
          /\ data' = json_files[w]
          /\ rerun' = (w \in uploaded)
    /\ cpc' = "loop"
    /\ count' = 0
    /\ ci' = 1
    /\ attempted' = {}
    /\ ids_at_start' = RowIds(table_ad_creatives)
    /\ UNCHANGED <<json_files, table_ad_creatives, next_row_id, uploaded, calls_done>>
    /\ UNCHANGED outsideCreatives

\* lines 358-428, one pass of the loop: downloaded, stored and written say
\* whether download_image, upload_image_to_storage and the store calls of the
\* upsert went through
HandleCreative ==
    /\ cpc = "loop"
    /\ ci <= Len(data)
    /\ ~RaisesOnImageUrl(data[ci])
    /\ \E downloaded, stored, written \in BOOLEAN :
          LET creative == data[ci]
              date == WEEKS[week]
              storage_url ==
                  IF HasImageUrl(creative) /\ downloaded /\ stored
                  THEN StorageUrl(date, FileAdId(creative), ImageUrl(creative).url)
                  ELSE Null
              record == FileRecord(creative, date, storage_url)
          IN  IF written
              THEN /\ table_ad_creatives' =
                          UpsertRow(table_ad_creatives, record, next_row_id)
                   /\ next_row_id' =
                          IF Len(table_ad_creatives') > Len(table_ad_creatives)
                          THEN next_row_id + 1 ELSE next_row_id
                   /\ count' = count + 1
              ELSE UNCHANGED <<table_ad_creatives, next_row_id, count>>
    /\ attempted' = attempted \cup {ci}
    /\ ci' = ci + 1
    /\ UNCHANGED <<json_files, week, data, cpc, calls_done, ids_at_start, uploaded, rerun>>
    /\ UNCHANGED outsideCreatives

\* line 369: image_url is a dict, AttributeError leaves the function
RaiseAttributeError ==
    /\ cpc = "loop"
    /\ ci <= Len(data)
    /\ RaisesOnImageUrl(data[ci])
    /\ cpc' = "raised"
    /\ calls_done' = calls_done + 1
    /\ UNCHANGED <<json_files, week, data, ci, count, table_ad_creatives, next_row_id,
                   attempted, ids_at_start, uploaded, rerun>>
    /\ UNCHANGED outsideCreatives

\* lines 430-431
ReturnCount ==
    /\ cpc = "loop"
    /\ ci > Len(data)
    /\ cpc' = "return"
    /\ calls_done' = calls_done + 1
    /\ uploaded' = IF count = Len(data) THEN uploaded \cup {week} ELSE uploaded
    /\ UNCHANGED <<json_files, week, data, ci, count, table_ad_creatives, next_row_id,
                   attempted, ids_at_start, rerun>>
    /\ UNCHANGED outsideCreatives

NextCreatives ==
    \/ FileNotFound
    \/ BeginUpload
    \/ HandleCreative
    \/ RaiseAttributeError
    \/ ReturnCount

SpecCreatives == InitCreatives /\ [][NextCreatives]_vars

---------------------------------------------------------------------------
(* supabase_uploader.py: main (lines 275-365) and upload_report (60-272).  *)
(*                                                                         *)
(* A report file is not found, or holds a report with the fields           *)
(* upload_report reads for its keys and its child records: week_start,     *)
(* start_date, mode and the five lists of items (an item is a name).  The  *)
(* other columns of the report row are copied values; the row keeps the    *)
(* file it was written from in raw_data.  Every call against the store may *)
(* raise; main catches it and goes on with the next file.  An insert into  *)
(* reports may return no data (line 139); the inserts into the child       *)
(* tables return the rows sent.                                            *)

ReportFile(found, week_start, start_date, mode, campaigns, age, gender, ga4, products) ==
    [found |-> found, week_start |-> week_start, start_date |-> start_date,
     mode |-> mode,
     items |-> <<campaigns, age, gender, ga4, products>>]

ReportCatalog ==
    << ReportFile(TRUE, Missing, "2026-02-05", Missing,
                  <<"c1", "c2">>, <<"18-24">>, <<>>, <<"google">>, <<"p1", "p2">>),
       ReportFile(TRUE, "2026-02-05", "2026-02-06", "weekly",
                  <<"c3">>, <<>>, <<"female", "male">>, <<>>, <<>>),
       ReportFile(TRUE, Missing, "2026-02-05", "daily",
                  <<>>, <<>>, <<>>, <<>>, <<"p1">>),
       ReportFile(TRUE, Missing, Missing, "weekly",
                  <<"c1">>, <<>>, <<>>, <<>>, <<>>),
       ReportFile(FALSE, Missing, Missing, Missing,
                  <<>>, <<>>, <<>>, <<>>, <<>>) >>

\* line 302: sorted(set(files_to_process)), the files in the order of their paths
SortedFiles(n) ==
    { f \in ListsOver(ReportCatalog, n) :
        \A a, b \in DOMAIN f : a < b =>
            \E x, y \in DOMAIN ReportCatalog :
                x < y /\ ReportCatalog[x] = f[a] /\ ReportCatalog[y] = f[b] }

InitReport ==
    /\ ReconcilerIdle
    /\ CreativesUploaderIdle
    /\ ReportUploaderIdle
    /\ DailyReportIdle
    /\ VideoAnalyzerIdle

\* line 69
WeekStart(report_data) ==
    IF IsTruthy(report_data.week_start)
    THEN report_data.week_start
    ELSE GetOrNone(report_data.start_date)

\* lines 86 and 128: report_data.get('mode', 'weekly')
Mode(report_data) == Get(report_data.mode, "weekly")

\* the id the store gives its n-th report row
ReportId(n) == "uuid-" \o ToString(n)

\* mutation of ClientFor: the client is created in a dry run too
ClientAlways(dry) == "client"

\* lines 312-315
ClientFor(dry) == IF dry THEN Null ELSE "client"

\* mutation of ExistingReports: the select finds nothing
ExistingNone(table, start_date, mode) == {}

\* line 128: positions of the rows with this start_date and mode
ExistingReports(table, start_date, mode) ==
    { j \in DOMAIN table : table[j].start_date = start_date /\ table[j].mode = mode }

\* lines 86-116: the report row
ReportRow(id, report_data) ==
    [id |-> id, start_date |-> WeekStart(report_data), mode |-> Mode(report_data),
     raw_data |-> report_data]

\* mutation of ChildWanted: the test of report_id dropped
ChildWantedAnyId(items, id) == items # <<>>

\* lines 145, 178, 202, 226, 250: if <items> and report_id
ChildWanted(items, id) == items # <<>> /\ IsTruthy(id)

\* lines 148-161 and the like: the records of a child table
ChildRecords(items, id) == [j \in DOMAIN items |-> [report_id |-> id, item |-> items[j]]]

\* delete().eq('report_id', id)
DeleteOf(rows, id) == SelectSeq(rows, LAMBDA r : r.report_id # id)

\* lines 336-337
Aggregate(total, res) ==
    [t \in DOMAIN total \cup DOMAIN res |->
        (IF t \in DOMAIN total THEN total[t] ELSE 0)
      + (IF t \in DOMAIN res THEN res[t] ELSE 0)]

\* the file main's loop is at
CurrentFile == files_to_process[fi]

\* lines 297-299: no file given, main exits before it creates a client
ExitNoFiles ==
    /\ mpc \in {"idle", "exit"}
    /\ mains_done < MaxMains
    /\ files_to_process' = <<>>
    /\ dry_run' \in BOOLEAN
    /\ supabase' = Null
    /\ store_calls' = 0
    /\ mpc' = "exit"
    /\ mains_done' = mains_done + 1
    /\ UNCHANGED <<fi, step, report_id, results, total_results, success_count,
                   error_count, reports, child_tables, next_report_id, report_written>>
    /\ UNCHANGED outsideReport

\* lines 275-319
StartMain ==
    /\ mpc \in {"idle", "exit"}
    /\ mains_done < MaxMains
    /\ files_to_process' \in SortedFiles(MaxFiles) \ {<<>>}
    /\ dry_run' \in BOOLEAN
    /\ supabase' = ClientFor(dry_run')
    /\ mpc' = "loop"
    /\ fi' = 1
    /\ total_results' = <<>>
    /\ success_count' = 0
    /\ error_count' = 0
    /\ store_calls' = 0
    /\ UNCHANGED <<step, report_id, results, reports, child_tables, next_report_id,
                   report_written, mains_done>>
    /\ UNCHANGED outsideReport

\* lines 324-327
FileMissing ==
    /\ mpc = "loop"
    /\ fi <= Len(files_to_process)
    /\ ~CurrentFile.found
    /\ error_count' = error_count + 1
    /\ fi' = fi + 1
    /\ UNCHANGED <<files_to_process, dry_run, supabase, mpc, step, report_id, results,
                   total_results, success_count, reports, child_tables, next_report_id,
                   store_calls, report_written, mains_done>>
    /\ UNCHANGED outsideReport

\* lines 66-73, caught at lines 344-346
RaiseValueError ==
    /\ mpc = "loop"
    /\ fi <= Len(files_to_process)
    /\ CurrentFile.found
    /\ ~IsTruthy(WeekStart(CurrentFile))
    /\ results' = <<>>
    /\ error_count' = error_count + 1
    /\ fi' = fi + 1
    /\ UNCHANGED <<files_to_process, dry_run, supabase, mpc, step, report_id,
                   total_results, success_count, reports, child_tables, next_report_id,
                   store_calls, report_written, mains_done>>
    /\ UNCHANGED outsideReport

\* lines 66-125: section 1 in a dry run
ReportDryRun ==
    /\ mpc = "loop"
    /\ fi <= Len(files_to_process)
    /\ CurrentFile.found
    /\ IsTruthy(WeekStart(CurrentFile))
    /\ dry_run
    /\ results' = DictPut(<<>>, "reports", 1)
    /\ report_id' = "dry-run-id"
    /\ report_written' = FALSE
    /\ mpc' = "child"
    /\ step' = 1
    /\ UNCHANGED <<files_to_process, dry_run, supabase, fi, total_results, success_count,
                   error_count, reports, child_tables, next_report_id, store_calls,
                   mains_done>>
    /\ UNCHANGED outsideReport

\* lines 66-141: section 1, the select and the update or insert
ReportUpsert ==
    /\ mpc = "loop"
    /\ fi <= Len(files_to_process)
    /\ CurrentFile.found
    /\ IsTruthy(WeekStart(CurrentFile))
    /\ ~dry_run
    /\ LET existing == ExistingReports(reports, WeekStart(CurrentFile), Mode(CurrentFile))
       IN  IF existing # {}
           THEN /\ report_id' = reports[SetMin(existing)].id
                /\ reports' = [j \in DOMAIN reports |->
                                  IF reports[j].id = report_id'
                                  THEN ReportRow(report_id', CurrentFile)
                                  ELSE reports[j]]
                /\ UNCHANGED next_report_id
           ELSE /\ reports' = Append(reports, ReportRow(ReportId(next_report_id),
                                                        CurrentFile))
                /\ next_report_id' = next_report_id + 1
                /\ \E returns_data \in BOOLEAN :
                      report_id' = IF returns_data THEN ReportId(next_report_id)
                                   ELSE Null
    /\ results' = DictPut(<<>>, "reports", 1)
    /\ report_written' = TRUE
    /\ store_calls' = store_calls + 2
    /\ mpc' = "child"
    /\ step' = 1
    /\ UNCHANGED <<files_to_process, dry_run, supabase, fi, total_results, success_count,
                   error_count, child_tables, mains_done>>
    /\ UNCHANGED outsideReport

\* lines 128-137: the select, or the update or insert after it, raises;
\* caught at lines 344-346
ReportUpsertRaises ==
    /\ mpc = "loop"
    /\ fi <= Len(files_to_process)
    /\ CurrentFile.found
    /\ IsTruthy(WeekStart(CurrentFile))
    /\ ~dry_run
    /\ \E calls \in 1..2 : store_calls' = store_calls + calls
    /\ results' = <<>>
    /\ report_id' = Null
    /\ report_written' = FALSE
    /\ error_count' = error_count + 1
    /\ fi' = fi + 1
    /\ UNCHANGED <<files_to_process, dry_run, supabase, mpc, step, total_results,
                   success_count, reports, child_tables, next_report_id, mains_done>>
    /\ UNCHANGED outsideReport

\* the items of the child table upload_report is at
CurrentItems == CurrentFile.items[step]

\* lines 145, 178, 202, 226, 250: nothing to write for this table
ChildSkip ==
    /\ mpc = "child"
    /\ step <= Len(ChildTables)
    /\ ~ChildWanted(CurrentItems, report_id)
    /\ step' = step + 1
    /\ UNCHANGED <<files_to_process, dry_run, supabase, mpc, fi, report_id, results,
                   total_results, success_count, error_count, reports, child_tables,
                   next_report_id, store_calls, report_written, mains_done>>
    /\ UNCHANGED outsideReport

\* lines 163-165 and the like: the count of the records, nothing sent
ChildDryRun ==
    /\ mpc = "child"
    /\ step <= Len(ChildTables)
    /\ ChildWanted(CurrentItems, report_id)
    /\ dry_run
    /\ results' = DictPut(results, ChildTables[step],
                          Len(ChildRecords(CurrentItems, report_id)))
    /\ step' = step + 1
    /\ UNCHANGED <<files_to_process, dry_run, supabase, mpc, fi, report_id,
                   total_results, success_count, error_count, reports, child_tables,
                   next_report_id, store_calls, report_written, mains_done>>
    /\ UNCHANGED outsideReport

\* lines 166-171 and the like: delete the rows of this report, insert the records
ChildWrite ==
    /\ mpc = "child"
    /\ step <= Len(ChildTables)
    /\ ChildWanted(CurrentItems, report_id)
    /\ ~dry_run
    /\ child_tables' =
          [child_tables EXCEPT ![step] =
              DeleteOf(child_tables[step], report_id)
                  \o ChildRecords(CurrentItems, report_id)]
    /\ results' = DictPut(results, ChildTables[step],
                          Len(ChildRecords(CurrentItems, report_id)))
    /\ store_calls' = store_calls + 2
    /\ step' = step + 1
    /\ UNCHANGED <<files_to_process, dry_run, supabase, mpc, fi, report_id,
                   total_results, success_count, error_count, reports, next_report_id,
                   report_written, mains_done>>
    /\ UNCHANGED outsideReport

\* lines 168-169 and the like: the delete raises, or the insert after it does;
\* caught at lines 344-346
ChildWriteRaises ==
    /\ mpc = "child"
    /\ step <= Len(ChildTables)
    /\ ChildWanted(CurrentItems, report_id)
    /\ ~dry_run
    /\ \E deleted \in BOOLEAN :
          IF deleted
          THEN /\ child_tables' =
                     [child_tables EXCEPT ![step] = DeleteOf(child_tables[step], report_id)]
               /\ store_calls' = store_calls + 2
          ELSE /\ UNCHANGED child_tables
               /\ store_calls' = store_calls + 1
    /\ error_count' = error_count + 1
    /\ fi' = fi + 1
    /\ mpc' = "loop"
    /\ UNCHANGED <<files_to_process, dry_run, supabase, step, report_id, results,
                   total_results, success_count, reports, next_report_id,
                   report_written, mains_done>>
    /\ UNCHANGED outsideReport

\* lines 272 and 333-339
ReturnResults ==
    /\ mpc = "child"
    /\ step > Len(ChildTables)
    /\ total_results' = Aggregate(total_results, results)
    /\ success_count' = success_count + 1
    /\ fi' = fi + 1
    /\ mpc' = "loop"
    /\ UNCHANGED <<files_to_process, dry_run, supabase, step, report_id, results,
                   error_count, reports, child_tables, next_report_id, store_calls,
                   report_written, mains_done>>
    /\ UNCHANGED outsideReport

\* lines 348-364
MainReturns ==
    /\ mpc = "loop"
    /\ fi > Len(files_to_process)
    /\ mpc' = "exit"
    /\ mains_done' = mains_done + 1
    /\ UNCHANGED <<files_to_process, dry_run, supabase, fi, step, report_id, results,
                   total_results, success_count, error_count, reports, child_tables,
                   next_report_id, store_calls, report_written>>
    /\ UNCHANGED outsideReport

NextReport ==
    \/ ExitNoFiles
    \/ StartMain
    \/ FileMissing
    \/ RaiseValueError
    \/ ReportDryRun
    \/ ReportUpsert
    \/ ReportUpsertRaises
    \/ ChildSkip
    \/ ChildDryRun
    \/ ChildWrite
    \/ ChildWriteRaises
    \/ ReturnResults
    \/ MainReturns

SpecReport == InitReport /\ [][NextReport]_vars

---------------------------------------------------------------------------
(* daily_report.py: main (lines 1394-1649), run by several processes in    *)
(* one working directory.                                                  *)
(*                                                                         *)
(* A run takes its period from --start and --end when both are given, else *)
(* from --mode and the clock, fetches the data of the period and writes    *)
(* the report to report_data_<start_date>.json and its preview to          *)
(* REPORT_PREVIEW_<start_date>.md.  The steps of the runs interleave.  A   *)
(* file opened for writing is cut to nothing; a run that writes into a     *)
(* file another run has written into since leaves its own text or a        *)
(* mixture of the two.  The fetched data (lines 1416-1618) are left out:   *)
(* the report is known by its start_date, end_date and mode.  The upload   *)
(* of lines 1638-1647 writes no file.                                      *)

\* datetime.now() on line 1405, as the day of February 2026
Today == 8

\* strftime("%Y-%m-%d") of lines 1411 and 1413
DateStr(day) == "2026-02-" \o (IF day < 10 THEN "0" ELSE "") \o ToString(day)

\* the command lines of the runs; --mode has the default "daily" (line 1398)
CommandLines ==
    << [start |-> Null, end |-> Null, mode |-> "daily"],
       [start |-> Null, end |-> Null, mode |-> "weekly"],
       [start |-> "2026-02-01", end |-> "2026-02-07", mode |-> "weekly"],
       [start |-> "2026-02-01", end |-> "2026-02-01", mode |-> "daily"],
       [start |-> "2026-02-02", end |-> "2026-02-08", mode |-> "weekly"],
       [start |-> "2026-02-07", end |-> Null, mode |-> "daily"] >>

InitDaily ==
    /\ ReconcilerIdle
    /\ CreativesUploaderIdle
    /\ ReportUploaderIdle
    /\ DailyReportIdle
    /\ VideoAnalyzerIdle

\* lines 1406-1414: the period as <<start_date, end_date>>
PeriodFor(args, today) ==
    IF IsTruthy(args.start) /\ IsTruthy(args.end)
    THEN <<args.start, args.end>>
    ELSE IF args.mode = "weekly"
    THEN <<DateStr((today - 1) - 6), DateStr(today - 1)>>
    ELSE <<DateStr(today - 1), DateStr(today - 1)>>

\* line 1621
OutputFilename(a_run) == "report_data_" \o a_run.start_date \o ".json"

\* line 1630
PreviewFilename(a_run) == "REPORT_PREVIEW_" \o a_run.start_date \o ".md"

\* the report of lines 1560-1618 and its text, known by period, mode and writer
ReportOf(r) ==
    [start_date |-> main_runs[r].start_date, end_date |-> main_runs[r].end_date,
     mode |-> main_runs[r].args.mode, by |-> r]

\* the text of a file two runs have written into at once
Interleaved == [start_date |-> "", end_date |-> "", mode |-> "", by |-> 0]

\* the text of a file just opened for writing
Truncated == [start_date |-> "", end_date |-> "", mode |-> "", by |-> -1]

\* open(name, "w"): the file is there and empty; writers records who opened it
OpenForWriting(files, name, r) ==
    DictPut(files, name,
            [content |-> Truncated,
             writers |-> (IF name \in DOMAIN files THEN files[name].writers ELSE {}) \cup {r}])

\* what a run may leave in a file it has open: its text, or a mixture with what
\* another run has written into the file meanwhile
WrittenBy(files, name, r) ==
    IF files[name].content = Truncated THEN {ReportOf(r)} ELSE {ReportOf(r), Interleaved}

\* a process runs main: lines 1395-1403
LaunchMain ==
    /\ Len(main_runs) < MaxRuns
    /\ \E j \in DOMAIN CommandLines :
          main_runs' = Append(main_runs, [rpc |-> "period", args |-> CommandLines[j],
                                          start_date |-> Null, end_date |-> Null])
    /\ UNCHANGED output_files
    /\ UNCHANGED outsideDaily

\* lines 1405-1618
ComputePeriod ==
    /\ \E r \in DOMAIN main_runs :
          /\ main_runs[r].rpc = "period"
          /\ main_runs' = [main_runs EXCEPT
                              ![r].start_date = PeriodFor(main_runs[r].args, Today)[1],
                              ![r].end_date = PeriodFor(main_runs[r].args, Today)[2],
                              ![r].rpc = "open"]
    /\ UNCHANGED output_files
    /\ UNCHANGED outsideDaily

\* lines 1621-1622
OpenReportFile ==
    /\ \E r \in DOMAIN main_runs :
          /\ main_runs[r].rpc = "open"
          /\ output_files' = OpenForWriting(output_files, OutputFilename(main_runs[r]), r)
          /\ main_runs' = [main_runs EXCEPT ![r].rpc = "dump"]
    /\ UNCHANGED outsideDaily

\* lines 1623-1624: json.dump and the close of the file
DumpReport ==
    /\ \E r \in DOMAIN main_runs :
          /\ main_runs[r].rpc = "dump"
          /\ LET name == OutputFilename(main_runs[r])
             IN  \E text \in WrittenBy(output_files, name, r) :
                    output_files' = [output_files EXCEPT ![name].content = text]
          /\ main_runs' = [main_runs EXCEPT ![r].rpc = "preview"]
    /\ UNCHANGED outsideDaily

\* lines 1626-1635: the preview, when report_formatter can be imported
WritePreview ==
    /\ \E r \in DOMAIN main_runs :
          /\ main_runs[r].rpc = "preview"
          /\ \E available \in BOOLEAN :
                IF available
                THEN LET name == PreviewFilename(main_runs[r])
                         opened == OpenForWriting(output_files, name, r)
                     IN  output_files' = [opened EXCEPT ![name].content = ReportOf(r)]
                ELSE UNCHANGED output_files
          /\ main_runs' = [main_runs EXCEPT ![r].rpc = "upload"]
    /\ UNCHANGED outsideDaily

\* lines 1637-1649: the upload of a weekly report, whose failure is caught
FinishMain ==
    /\ \E r \in DOMAIN main_runs :
          /\ main_runs[r].rpc = "upload"
          /\ main_runs' = [main_runs EXCEPT ![r].rpc = "done"]
    /\ UNCHANGED output_files
    /\ UNCHANGED outsideDaily

NextDaily ==
    \/ LaunchMain
    \/ ComputePeriod
    \/ OpenReportFile
    \/ DumpReport
    \/ WritePreview
    \/ FinishMain

SpecDaily == InitDaily /\ [][NextDaily]_vars

---------------------------------------------------------------------------
(* video_analyzer.py: analyze_video_creative (lines 724-878).              *)
(*                                                                         *)
(* The creative has or lacks a video_url and a video_id, and its ad_name   *)
(* is a string or None.  What the Meta API gives for the video, whether a  *)
(* download, the thumbnail extraction or an upload yields something, and   *)
(* whether an analysis gives an error, is the environment's choice: the    *)
(* helpers catch their exceptions and return None or a dict with "error".  *)
(* copy_text feeds the prompts only and is left out.                       *)

VideoCreatives ==
    { [ad_name |-> n, video_url |-> u, video_id |-> i] :
        n \in {"LM_video", Null}, u \in {Null, "http://c/v.mp4"}, i \in {Null, "v1"} }

InitVideo ==
    /\ ReconcilerIdle
    /\ CreativesUploaderIdle
    /\ ReportUploaderIdle
    /\ DailyReportIdle
    /\ VideoAnalyzerIdle

\* lines 750-758
InitialResult(creative) ==
    [is_video |-> TRUE, video_url |-> creative.video_url, video_id |-> creative.video_id,
     video_thumbnail_url |-> Null, video_analysis |-> Null, analysis_status |-> "pending",
     analysis_mode |-> "unknown", download_method |-> Missing, error |-> Missing]

\* what get_video_url_from_meta may return (lines 88-148)
MetaInfos ==
    { [video_url |-> u, thumbnail_url |-> t] :
        u \in {Null, "http://meta/src.mp4"}, t \in {Null, "http://meta/t.jpg"} }

\* a path or None
Paths(path) == {Null, path}

\* mutation of NoMediaStatus: the status is left as it is
NoMediaStatusKept(status) == status

\* line 868
NoMediaStatus(status) == "error"

\* the call, lines 742-748 with a string as ad_name
StartAnalysis ==
    /\ vpc \in {"idle", "returned", "raised"}
    /\ video_calls < MaxVideoCalls
    /\ video_creative' \in { c \in VideoCreatives : c.ad_name # Null }
    /\ video_week_start' \in {Null, "2026-02-05"}
    /\ video_result' = InitialResult(video_creative')
    /\ video_locals' = [video_url |-> video_creative'.video_url, thumbnail_url |-> Null,
                        video_path |-> Null, thumbnail_path |-> Null]
    /\ vpc' = "meta"
    /\ video_calls' = video_calls + 1
    /\ UNCHANGED outsideVideo

\* line 748: ad_name[:50] of a creative whose ad_name is None raises TypeError
RaiseTypeError ==
    /\ vpc \in {"idle", "returned", "raised"}
    /\ video_calls < MaxVideoCalls
    /\ video_creative' \in { c \in VideoCreatives : c.ad_name = Null }
    /\ video_week_start' \in {Null, "2026-02-05"}
    /\ video_result' = Null
    /\ video_locals' = Null
    /\ vpc' = "raised"
    /\ video_calls' = video_calls + 1
    /\ UNCHANGED outsideVideo

\* lines 760-772
FetchMetaInfo ==
    /\ vpc = "meta"
    /\ \E meta_info \in MetaInfos :
          /\ IsTruthy(video_creative.video_id) \/ meta_info = [video_url |-> Null,
                                                                thumbnail_url |-> Null]
          /\ IF IsTruthy(meta_info.video_url)
             THEN /\ video_locals' = [video_locals EXCEPT
                                          !.video_url = meta_info.video_url,
                                          !.thumbnail_url = meta_info.thumbnail_url]
                  /\ video_result' = [video_result EXCEPT !.video_url = meta_info.video_url]
             ELSE /\ video_locals' = [video_locals EXCEPT
                                          !.thumbnail_url = meta_info.thumbnail_url]
                  /\ UNCHANGED video_result
    /\ vpc' = "download"
    /\ UNCHANGED <<video_creative, video_week_start, video_calls>>
    /\ UNCHANGED outsideVideo

\* lines 776-794: download_video, then download_video_with_ytdlp
DownloadVideo ==
    /\ vpc = "download"
    /\ \E first \in Paths("/tmp/ad_video.mp4"), second \in Paths("/tmp/ad_video_v1.mp4") :
          LET tried == IsTruthy(video_locals.video_url)
              path1 == IF tried THEN first ELSE Null
              again == ~IsTruthy(path1) /\ IsTruthy(video_creative.video_id)
              path2 == IF again THEN second ELSE path1
          IN  /\ tried \/ first = Null
              /\ again \/ second = Null
              /\ video_locals' = [video_locals EXCEPT !.video_path = path2]
              /\ video_result' =
                    [video_result EXCEPT
                        !.analysis_mode = IF again THEN "video_ytdlp"
                                          ELSE IF tried THEN "video" ELSE @,
                        !.download_method = IF again /\ IsTruthy(path2) THEN "yt-dlp" ELSE @]
    /\ vpc' = "video"
    /\ UNCHANGED <<video_creative, video_week_start, video_calls>>
    /\ UNCHANGED outsideVideo

\* lines 797-835: the analysis of the downloaded video
AnalyzeVideo ==
    /\ vpc = "video"
    /\ IF IsTruthy(video_locals.video_path)
       THEN \E thumbnail_path \in Paths("/tmp/thumb.jpg"),
               supabase_url \in {Null, "http://s/thumb.jpg"},
               gcp_error \in BOOLEAN, gemini_error \in BOOLEAN :
               LET uploads == IsTruthy(thumbnail_path) /\ IsTruthy(video_week_start)
               IN  /\ uploads \/ supabase_url = Null
                   /\ gcp_error \/ ~gemini_error
                   /\ video_locals' = [video_locals EXCEPT !.thumbnail_path = thumbnail_path]
                   /\ video_result' =
                         [video_result EXCEPT
                             !.video_thumbnail_url = IF uploads THEN supabase_url ELSE @,
                             !.video_analysis = IF gcp_error THEN "gemini"
                                                ELSE "gcp_video_intelligence",
                             !.analysis_status = IF gcp_error /\ gemini_error THEN "partial"
                                                 ELSE "success"]
       ELSE UNCHANGED <<video_locals, video_result>>
    /\ vpc' = "thumbnail"
    /\ UNCHANGED <<video_creative, video_week_start, video_calls>>
    /\ UNCHANGED outsideVideo

\* lines 839-864: the analysis of the thumbnail
AnalyzeThumbnail ==
    /\ vpc = "thumbnail"
    /\ IF ~IsTruthy(video_locals.video_path) /\ IsTruthy(video_locals.thumbnail_url)
       THEN \E thumbnail_path \in Paths("/tmp/thumb.jpg"),
               supabase_url \in {Null, "http://s/thumb.jpg"}, analysis_error \in BOOLEAN :
               LET uploads == IsTruthy(thumbnail_path) /\ IsTruthy(video_week_start)
               IN  /\ uploads \/ supabase_url = Null
                   /\ IsTruthy(thumbnail_path) \/ ~analysis_error
                   /\ video_locals' = [video_locals EXCEPT !.thumbnail_path = thumbnail_path]
                   /\ video_result' =
                         IF IsTruthy(thumbnail_path)
                         THEN [video_result EXCEPT
                                  !.analysis_mode = "thumbnail",
                                  !.video_thumbnail_url = IF uploads THEN supabase_url ELSE @,
                                  !.video_analysis = "gemini_thumbnail",
                                  !.analysis_status = IF analysis_error THEN "partial"
                                                      ELSE "success"]
                         ELSE [video_result EXCEPT
                                  !.analysis_mode = "thumbnail",
                                  !.analysis_status = "error",
                                  !.error = "Thumbnail download failed"]
       ELSE UNCHANGED <<video_locals, video_result>>
    /\ vpc' = "nomedia"
    /\ UNCHANGED <<video_creative, video_week_start, video_calls>>
    /\ UNCHANGED outsideVideo

\* lines 867-870: neither a video nor a thumbnail
NoMedia ==
    /\ vpc = "nomedia"
    /\ IF ~IsTruthy(video_locals.video_path) /\ ~IsTruthy(video_locals.thumbnail_url)
       THEN video_result' =
               [video_result EXCEPT
                   !.analysis_status = NoMediaStatus(video_result.analysis_status),
                   !.error = "No video or thumbnail URL available"]
       ELSE UNCHANGED video_result
    /\ vpc' = "cleanup"
    /\ UNCHANGED <<video_creative, video_week_start, video_locals, video_calls>>
    /\ UNCHANGED outsideVideo

\* lines 872-878: cleanup_temp_files, return result
CleanupAndReturn ==
    /\ vpc = "cleanup"
    /\ vpc' = "returned"
    /\ video_locals' = [video_locals EXCEPT !.video_path = Null, !.thumbnail_path = Null]
    /\ UNCHANGED <<video_creative, video_week_start, video_result, video_calls>>
    /\ UNCHANGED outsideVideo

NextVideo ==
    \/ StartAnalysis
    \/ RaiseTypeError
    \/ FetchMetaInfo
    \/ DownloadVideo
    \/ AnalyzeVideo
    \/ AnalyzeThumbnail
    \/ NoMedia
    \/ CleanupAndReturn

SpecVideo == InitVideo /\ [][NextVideo]_vars

---------------------------------------------------------------------------
(* Vocabulary of the properties *)

Results == creatives_for_analysis

Returned == pc = "done"

GroupOf(r) == meta_adsets[r.group]

CreativeIdOf(c) == Get(ad_creatives[c].ad_id, "")

Spending == { g \in DOMAIN meta_adsets : meta_adsets[g].spend > 0 }

ResultsOf(g) == { j \in DOMAIN Results : Results[j].group = g }

PoolIds == { CreativeIdOf(c) : c \in DOMAIN ad_creatives }

SamePrefix12(a, b) == Take(a, IdPrefixLen) = Take(b, IdPrefixLen)

---------------------------------------------------------------------------
(* C1: within one run no two results have the same matched creative: each  *)
(* creative ad_id is the matched creative of at most one result.           *)
C1_NoCreativeMatchedTwice ==
    \A i, j \in DOMAIN Results :
        (i # j /\ Results[i].matched # 0 /\ Results[j].matched # 0)
            => CreativeIdOf(Results[i].matched) # CreativeIdOf(Results[j].matched)

(* C2: the returned list has as many results as there are groups with      *)
(* spend > 0, and each such group contributes exactly one result, which    *)
(* carries the group's adset_id.                                           *)
C2_OneResultPerSpendingGroup ==
    Returned =>
        /\ Len(Results) = Cardinality(Spending)
        /\ \A g \in Spending :
              /\ Cardinality(ResultsOf(g)) = 1
              /\ \A j \in ResultsOf(g) : Results[j].adset_id = AdsetId(meta_adsets[g])

C2_Witness ==
    /\ Returned
    /\ Len(meta_adsets) = 2
    /\ Len(Results) = 1
    /\ ad_creatives # <<>>

(* C3: a group with spend > 0 whose adset_id is the ad_id of a creative of *)
(* the pool gets a result that uses that creative id, whatever earlier     *)
(* groups claimed and whatever the prefix, name or keyword candidates are. *)
C3_ExactIdWins ==
    /\ \A j \in DOMAIN Results :
          (AdsetId(GroupOf(Results[j])) # "" /\ AdsetId(GroupOf(Results[j])) \in PoolIds)
              => /\ Results[j].matched # 0
                 /\ CreativeIdOf(Results[j].matched) = AdsetId(GroupOf(Results[j]))
                 /\ Results[j].ad_id = AdsetId(GroupOf(Results[j]))
    /\ Returned =>
          \A g \in Spending :
              (AdsetId(meta_adsets[g]) # "" /\ AdsetId(meta_adsets[g]) \in PoolIds)
                  => ResultsOf(g) # {}

\* an exact match on a creative that an earlier group had already claimed,
\* while the prefix index holds another creative for the group's prefix
C3_Witness ==
    /\ Returned
    /\ \E i, j \in DOMAIN Results :
          /\ Results[i].group < Results[j].group
          /\ Results[j].how = "exact"
          /\ Results[i].matched = Results[j].matched
          /\ PrefixMatch(Results[j].adset_id) # Results[j].matched

(* C4: a group with spend > 0 and no exact-ID creative, for which some     *)
(* creative's ad_id has the same first 12 characters as its adset_id, has  *)
(* a matched creative, whose ad_id starts with those 12 characters.        *)
C4_PrefixMatches ==
    /\ \A j \in DOMAIN Results :
          LET id == AdsetId(GroupOf(Results[j]))
          IN  (/\ id # ""
               /\ id \notin PoolIds
               /\ \E p \in PoolIds : p # "" /\ SamePrefix12(p, id))
                  => /\ Results[j].matched # 0
                     /\ SamePrefix12(CreativeIdOf(Results[j].matched), id)
                     /\ SamePrefix12(Results[j].ad_id, id)
    /\ Returned =>
          \A g \in Spending :
              (\E p \in PoolIds : p # "" /\ SamePrefix12(p, AdsetId(meta_adsets[g])))
                  => ResultsOf(g) # {}

\* a prefix match while another creative of the pool shares only the first
\* 11 characters with the group
C4_Witness ==
    /\ Returned
    /\ \E j \in DOMAIN Results :
          /\ Results[j].how = "prefix"
          /\ Results[j].ad_id # Results[j].adset_id
          /\ \E p \in PoolIds :
                /\ ~SamePrefix12(p, Results[j].adset_id)
                /\ Take(p, IdPrefixLen - 1) = Take(Results[j].adset_id, IdPrefixLen - 1)

(* C5: in every result carousel_images has at most 7 entries, whichever    *)
(* source the URLs came from and however many the creative carries.        *)
C5_AtMostSevenImages ==
    \A j \in DOMAIN Results : Len(Results[j].carousel_images) <= 7

\* results cut to 7, one from backed-up URLs and one from original media items
C5_Witness ==
    /\ Returned
    /\ \E i, j \in DOMAIN Results :
          /\ Results[i].image_count > 7
          /\ Results[j].image_count > 7
          /\ ad_creatives[Results[i].matched].supabase_carousel_urls # <<>>
          /\ ad_creatives[Results[j].matched].supabase_carousel_urls = <<>>

(* C6, as stated: the returned list is ordered by non-increasing spend of  *)
(* the originating groups.                                                 *)
C6_SortedByGroupSpend ==
    Returned =>
        \A j \in 1..(Len(Results) - 1) :
            GroupOf(Results[j]).spend >= GroupOf(Results[j + 1]).spend

(* C6, amended: the returned list is ordered by non-increasing recorded    *)
(* spend, metrics.spend, which is the group's spend rounded to a whole     *)
(* number; results with the same recorded spend keep the groups' order.    *)
C6_SortedByRecordedSpend ==
    Returned =>
        \A j \in 1..(Len(Results) - 1) :
            /\ Results[j].metrics.spend >= Results[j + 1].metrics.spend
            /\ Results[j].metrics.spend = Round0(GroupOf(Results[j]).spend)
            /\ Results[j].metrics.spend = Results[j + 1].metrics.spend
                  => Results[j].group < Results[j + 1].group

\* the sort moved a later group in front of an earlier one
C6_Witness ==
    /\ Returned
    /\ Len(Results) = 2
    /\ Results[1].group > Results[2].group
    /\ Results[1].metrics.spend > Results[2].metrics.spend

(* C7: a group with spend <= 0 never appears in the output and never       *)
(* claims a creative: its step adds no result and leaves the claimed set   *)
(* unchanged.                                                              *)
C7_NoSpendNoEffect ==
    /\ [](\A j \in DOMAIN Results : GroupOf(Results[j]).spend > 0)
    /\ [][(pc = "match" /\ k <= Len(meta_adsets) /\ meta_adsets[k].spend <= 0)
              => /\ creatives_for_analysis' = creatives_for_analysis
                 /\ used_creative_ids' = used_creative_ids
                 /\ k' = k + 1]_vars

\* a group without spend was passed over although a creative has its id
C7_Witness ==
    /\ pc = "match"
    /\ k > 1
    /\ meta_adsets[k - 1].spend <= 0
    /\ ExactMatch(AdsetId(meta_adsets[k - 1])) # 0
    /\ ResultsOf(k - 1) = {}

(* C8: a group with spend > 0 that no strategy matched yields exactly one  *)
(* result, with the group's adset_id and adset_name as identifiers, an     *)
(* empty media list and an empty copy.                                     *)
C8_UnmatchedStillReported ==
    Returned =>
        \A g \in Spending :
            (\A j \in ResultsOf(g) : Results[j].how = "none")
                => /\ Cardinality(ResultsOf(g)) = 1
                   /\ \A j \in ResultsOf(g) :
                         /\ Results[j].matched = 0
                         /\ Results[j].ad_id = AdsetId(meta_adsets[g])
                         /\ Results[j].adset_id = AdsetId(meta_adsets[g])
                         /\ Results[j].ad_name = AdsetName(meta_adsets[g])
                         /\ Results[j].carousel_images = <<>>
                         /\ Results[j].image_count = 0
                         /\ Results[j].copy = ""

\* an unmatched group with an identifier, the pool not being empty
C8_Witness ==
    /\ Returned
    /\ Len(ad_creatives) = 2
    /\ \E j \in DOMAIN Results :
          /\ Results[j].how = "none"
          /\ Results[j].ad_id # ""
          /\ Results[j].ad_id = AdsetId(GroupOf(Results[j]))

C11_SecondRunSameOutput ==
    /\ (run = 2 /\ Returned) => Results = first_output
    /\ (pc = "match" /\ k = 1) => used_creative_ids = {}

C11_Witness ==
    /\ run = 2
    /\ Returned
    /\ Len(first_output) = 2
    /\ \E j \in DOMAIN Results : Results[j].how \in {"name", "keyword"}

(* C12: a result whose matched creative has no backed-up media URLs and no *)
(* media item yielding an http URL, but a main image URL (the backed-up    *)
(* one, else the original), has exactly that URL as its media list.        *)
C12_FallbackIsSoleEntry ==
    \A j \in DOMAIN Results :
        LET r == Results[j] IN
        r.matched # 0 =>
            LET c == ad_creatives[r.matched]
                main_url == IF c.supabase_image_url # "" THEN c.supabase_image_url
                            ELSE c.image_url
            IN  ( /\ c.supabase_carousel_urls = <<>>
                  /\ \A i \in DOMAIN c.carousel_images :
                        ~ ( /\ c.carousel_images[i].url # ""
                            /\ StartsWith(c.carousel_images[i].url, "http") )
                  /\ main_url # "" )
                => ( /\ r.carousel_images = <<main_url>>
                     /\ r.image_count = 1
                     /\ r.is_carousel = FALSE )

C12_Witness ==
    /\ Returned
    /\ \E j \in DOMAIN Results :
          /\ Results[j].matched # 0
          /\ ad_creatives[Results[j].matched].supabase_carousel_urls = <<>>
          /\ ad_creatives[Results[j].matched].carousel_images # <<>>
          /\ ad_creatives[Results[j].matched].supabase_image_url # ""
          /\ Len(Results[j].carousel_images) = 1
    /\ \E j \in DOMAIN Results :
          /\ Results[j].matched # 0
          /\ ad_creatives[Results[j].matched].carousel_images = <<>>
          /\ ad_creatives[Results[j].matched].supabase_image_url = ""
          /\ Len(Results[j].carousel_images) = 1

(* C13: with an empty list of groups the function returns at once with an  *)
(* empty list, whatever the creative pool holds: it never enters the       *)
(* indexing or the matching loop.                                          *)
C13_NoGroupsNoResults ==
    meta_adsets = <<>> =>
        /\ pc \in {"start", "done"}
        /\ Len(Results) = 0

C13_Witness ==
    /\ Returned
    /\ meta_adsets = <<>>
    /\ Len(ad_creatives) = MaxCreatives
    /\ Results = <<>>

(* A step of the matching loop that appends the result of group k *)
AppendsResult == pc = "match" /\ Len(Results') = Len(Results) + 1

NewResult == Results'[Len(Results')]

(* C19: for each group the strategies decide in the order exact id, id     *)
(* prefix, name similarity, keyword: the result is that of the first       *)
(* strategy that yields a creative, and it is unmatched only when all four *)
(* yield none.                                                             *)
C19_StrategyOrder ==
    [][ AppendsResult =>
          LET id     == AdsetId(meta_adsets[k])
              name   == AdsetName(meta_adsets[k])
              exact  == ExactMatch(id)
              prefix == PrefixMatch(id)
              byName == NameMatch(name, used_creative_ids)
              byWord == KeywordMatch(name, used_creative_ids)
              miss2  == exact = 0 /\ prefix = 0
              miss3  == miss2 /\ byName = 0
          IN  /\ exact # 0 => (NewResult.how = "exact" /\ NewResult.matched = exact)
              /\ (exact = 0 /\ prefix # 0)
                    => (NewResult.how = "prefix" /\ NewResult.matched = prefix)
              /\ (miss2 /\ byName # 0)
                    => (NewResult.how = "name" /\ NewResult.matched = byName)
              /\ (miss3 /\ byWord # 0)
                    => (NewResult.how = "keyword" /\ NewResult.matched = byWord)
              /\ (miss3 /\ byWord = 0)
                    => (NewResult.how = "none" /\ NewResult.matched = 0)
              /\ NewResult.how = "name" => miss2
              /\ NewResult.how = "keyword" => miss3 ]_vars

\* a group decided by its id prefix although another creative of the pool is
\* similar by name and unclaimed
C19_Witness ==
    /\ Returned
    /\ \E j \in DOMAIN Results :
          /\ Results[j].how = "prefix"
          /\ \E c \in DOMAIN ad_creatives :
                /\ c # Results[j].matched
                /\ NameSimilar(AdsetName(GroupOf(Results[j])),
                               NamePrefix(Get(ad_creatives[c].ad_name, "")),
                               Get(ad_creatives[c].ad_name, ""))
                /\ \A i \in DOMAIN Results : Results[i].matched # c

\* the items of the name index that are similar to the name of group k
SimilarItems ==
    { j \in DOMAIN creative_by_name_prefix :
        NameSimilar(AdsetName(meta_adsets[k]), creative_by_name_prefix[j].prefix,
                    Get(ad_creatives[creative_by_name_prefix[j].creative].ad_name, "")) }

\* the creatives of the pool that share a keyword with the name of group k
KeywordCandidates ==
    { c \in DOMAIN ad_creatives :
        SharesKeyword(AdsetName(meta_adsets[k]), Get(ad_creatives[c].ad_name, "")) }

(* C20: the creative a group gets from the name scan or the keyword scan   *)
(* was not in the claimed set when the group was evaluated, and it is the  *)
(* first unclaimed candidate of the scan: claimed candidates before it are *)
(* passed over.                                                            *)
C20_ScansSkipClaimed ==
    [][ AppendsResult =>
          /\ NewResult.how \in {"name", "keyword"}
                => CreativeIdOf(NewResult.matched) \notin used_creative_ids
          /\ NewResult.how = "name" =>
                \E j \in SimilarItems :
                    /\ creative_by_name_prefix[j].creative = NewResult.matched
                    /\ \A i \in SimilarItems : i < j =>
                          CreativeIdOf(creative_by_name_prefix[i].creative)
                              \in used_creative_ids
          /\ NewResult.how = "keyword" =>
                /\ NewResult.matched \in KeywordCandidates
                /\ \A c \in KeywordCandidates : c < NewResult.matched =>
                      CreativeIdOf(c) \in used_creative_ids ]_vars

\* the second group passed over the creative the first one claimed: in the name
\* scan (how = "name") or in the keyword scan (how = "keyword")
C20_SkippedIn(how) ==
    /\ Returned
    /\ Len(Results) = 2
    /\ \E i, j \in DOMAIN Results :
          /\ Results[i].group < Results[j].group
          /\ Results[i].matched # 0
          /\ Results[j].how = how
          /\ Results[i].matched < Results[j].matched
          /\ LET claimed == Get(ad_creatives[Results[i].matched].ad_name, "")
                 name == AdsetName(GroupOf(Results[j]))
             IN  IF how = "name"
                 THEN NameSimilar(name, NamePrefix(claimed), claimed)
                 ELSE SharesKeyword(name, claimed)

C20_Witness == C20_SkippedIn("name")

C20_WitnessKeyword == C20_SkippedIn("keyword")

\* two rows of the table ad_creatives with the same (report_date, ad_id)
DuplicateRows ==
    { <<i, j>> \in (DOMAIN table_ad_creatives) \X (DOMAIN table_ad_creatives) :
        /\ i < j
        /\ table_ad_creatives[i].report_date = table_ad_creatives[j].report_date
        /\ table_ad_creatives[i].ad_id = table_ad_creatives[j].ad_id }

(* C14: whatever calls of upload_ad_creatives ran one after the other on a *)
(* table that had no duplicates, the table has at most one row per         *)
(* (report_date, ad_id); and a call on a week whose file an earlier call   *)
(* has upserted whole leaves the table with the rows (the ids) it found.   *)
C14_OneRowPerDateAndAd ==
    /\ DuplicateRows = {}
    /\ rerun => RowIds(table_ad_creatives) = ids_at_start

\* a second call on a two-record file returned, having written both records
C14_Witness ==
    /\ cpc = "return"
    /\ rerun
    /\ Len(data) = 2
    /\ count = 2
    /\ Len(table_ad_creatives) >= 2

(* C15: upload_ad_creatives never leaves its loop early: no record makes   *)
(* the call raise, a call that returns has attempted every record of the   *)
(* file, and every row written has its record's original URL as thumbnail  *)
(* and, as image, the stored URL or else the original one.                 *)
C15_LoopNeverAborts ==
    /\ cpc # "raised"
    /\ cpc = "return" => attempted = DOMAIN data
    /\ \A j \in DOMAIN table_ad_creatives :
          LET r == table_ad_creatives[j]
          IN  \/ r.image_url = r.thumbnail_url
              \/ r.image_url = StorageUrl(r.report_date, r.ad_id, r.thumbnail_url)

\* the key of the report main's loop is at, as its file gives it
KeyOfCurrent ==
    LET f == CurrentFile
    IN  [start_date |-> IF f.week_start \notin {Missing, Null, ""} THEN f.week_start
                        ELSE f.start_date,
         mode |-> IF f.mode = Missing THEN "weekly" ELSE f.mode]

\* the rows of reports with the key of the current report
RowsOfCurrent ==
    { j \in DOMAIN reports :
        /\ reports[j].start_date = KeyOfCurrent.start_date
        /\ reports[j].mode = KeyOfCurrent.mode }

\* upload_report passes from its section 1 to the child tables in a real run
WritesReportRow == mpc = "loop" /\ mpc' = "child" /\ ~dry_run

(* C16: whatever calls of upload_report ran one after the other on an      *)
(* empty table, reports has at most one row per (start_date, mode); a call *)
(* whose (start_date, mode) has a row updates that row, takes its id as    *)
(* report_id and adds no row, and a call that finds none adds one row.     *)
C16_OneReportPerStartAndMode ==
    /\ [](\A i, j \in DOMAIN reports :
             (reports[i].start_date = reports[j].start_date
                 /\ reports[i].mode = reports[j].mode) => i = j)
    /\ [][ WritesReportRow =>
             IF RowsOfCurrent # {}
             THEN /\ Len(reports') = Len(reports)
                  /\ \A j \in RowsOfCurrent :
                        /\ report_id' = reports[j].id
                        /\ reports'[j].id = reports[j].id
                        /\ reports'[j].raw_data = CurrentFile
             ELSE Len(reports') = Len(reports) + 1 ]_vars

\* the row the first report was inserted as (its age rows are still there) now
\* holds the second report, which has the same start_date and mode
C16_Witness ==
    /\ mpc = "child"
    /\ report_id = "uuid-1"
    /\ \E j \in DOMAIN reports :
          /\ reports[j].id = "uuid-1"
          /\ reports[j].raw_data = ReportCatalog[2]
    /\ \E i \in DOMAIN child_tables[2] :
          /\ child_tables[2][i].report_id = "uuid-1"
          /\ child_tables[2][i].item = "18-24"

\* the rows of all child tables
ChildRows ==
    UNION { { child_tables[t][i] : i \in DOMAIN child_tables[t] } : t \in DOMAIN child_tables }

(* C17: a step that writes to a child table is taken after this call of    *)
(* upload_report has inserted or updated its report row, the rows it adds  *)
(* carry the id of that row, and with no report id no child table is       *)
(* written; so every child row carries the id of a row of reports.         *)
C17_ChildrenAfterReport ==
    /\ [](\A r \in ChildRows : \E j \in DOMAIN reports : reports[j].id = r.report_id)
    /\ [][ /\ child_tables' # child_tables =>
                /\ report_written
                /\ report_id \notin {Null, ""}
                /\ \E j \in RowsOfCurrent :
                      reports[j].id = report_id /\ reports[j].raw_data = CurrentFile
                /\ \A t \in DOMAIN child_tables :
                      \A i \in DOMAIN child_tables'[t] :
                          \/ child_tables'[t][i].report_id = report_id
                          \/ \E h \in DOMAIN child_tables[t] :
                                child_tables[t][h] = child_tables'[t][i]
           /\ report_id = Null => child_tables' = child_tables ]_vars

\* a report with campaigns whose insert gave no id has passed all five child
\* sections, in a store whose child tables hold rows of an earlier report
C17_Witness ==
    /\ mpc = "child"
    /\ step > Len(ChildTables)
    /\ report_written
    /\ report_id = Null
    /\ CurrentFile.items[1] # <<>>
    /\ ChildRows # {}

\* the counts upload_report gives for a report: 1 for reports and, for each child
\* table the report has items for, their number
SentCounts(f) ==
    [t \in {"reports"} \cup { ChildTables[j] : j \in { h \in DOMAIN ChildTables :
                                                         f.items[h] # <<>> } } |->
        IF t = "reports" THEN 1
        ELSE Len(f.items[CHOOSE j \in DOMAIN ChildTables : ChildTables[j] = t])]

AtReturn == mpc = "child" /\ step > Len(ChildTables)

(* C18: in a dry run main creates no client and no call is made against    *)
(* the store: no row of reports or of a child table changes; and           *)
(* upload_report returns the per-table counts of the records, the same a   *)
(* real upload that got its report id returns.                             *)
C18_DryRunTouchesNothing ==
    /\ []((dry_run /\ mpc # "idle") => (supabase = Null /\ store_calls = 0))
    /\ [][dry_run' => (reports' = reports /\ child_tables' = child_tables)]_vars
    /\ []((AtReturn /\ dry_run) => results = SentCounts(CurrentFile))
    /\ []((AtReturn /\ ~dry_run /\ report_id # Null) => results = SentCounts(CurrentFile))

\* a dry run over two reports has ended in a store that an earlier run filled
C18_Witness ==
    /\ dry_run
    /\ mpc = "exit"
    /\ success_count = 2
    /\ reports # <<>>
    /\ "meta_campaigns" \in DOMAIN total_results
    /\ total_results["meta_campaigns"] = 3

\* the ad_ids of the creatives matched by the results so far
MatchedIds == { CreativeIdOf(Results[j].matched) :
                  j \in { h \in DOMAIN Results : Results[h].matched # 0 } }

(* C21: the claimed set is empty until the matching loop begins, never     *)
(* loses an element, and whenever a group is about to be evaluated (and on *)
(* return) it is exactly the set of the ad_ids of the creatives matched to *)
(* the groups handled so far.                                              *)
C21_ClaimedSetIsMatchedSet ==
    /\ [](pc \in {"start", "index"} => used_creative_ids = {})
    /\ [](pc \in {"match", "done"} => used_creative_ids = MatchedIds)
    /\ [][used_creative_ids \subseteq used_creative_ids']_vars

\* the second group is about to be evaluated and the match of the first is recorded
C21_Witness ==
    /\ pc = "match"
    /\ k = 2
    /\ Len(meta_adsets) = 2
    /\ Len(Results) = 1
    /\ Results[1].matched # 0
    /\ used_creative_ids = {CreativeIdOf(Results[1].matched)}

\* the creative about to be indexed has more than the one kept for its prefix
IsRicher(new, kept) ==
    \/ new.body # "" /\ kept.body = ""
    \/ new.carousel_images # <<>> /\ kept.carousel_images = <<>>

(* C22: when the creative being indexed has the 12-character id prefix of  *)
(* a creative already in the prefix index, it takes its place exactly when *)
(* it has a body and the kept one has none, or has carousel images and the *)
(* kept one has none; a creative with a new prefix is entered, one without *)
(* an ad_id leaves the index as it is.                                     *)
C22_RicherCreativeReplaces ==
    [][ (pc = "index" /\ k' = k + 1) =>
          LET new == ad_creatives[k]
              id == IF new.ad_id = Missing THEN "" ELSE new.ad_id
              p == Take(id, IdPrefixLen)
          IN  IF id = ""
              THEN creative_by_id_prefix' = creative_by_id_prefix
              ELSE /\ DOMAIN creative_by_id_prefix' = DOMAIN creative_by_id_prefix \cup {p}
                   /\ \A q \in DOMAIN creative_by_id_prefix :
                         q # p => creative_by_id_prefix'[q] = creative_by_id_prefix[q]
                   /\ creative_by_id_prefix'[p] =
                         IF p \notin DOMAIN creative_by_id_prefix THEN k
                         ELSE IF IsRicher(new, ad_creatives[creative_by_id_prefix[p]])
                              THEN k
                              ELSE creative_by_id_prefix[p] ]_vars

\* of two creatives with one prefix the second, the richer one, is in the index
C22_Witness ==
    /\ pc = "match"
    /\ Len(ad_creatives) = 2
    /\ SamePrefix12(CreativeIdOf(1), CreativeIdOf(2))
    /\ CreativeIdOf(1) # ""
    /\ IsRicher(ad_creatives[2], ad_creatives[1])
    /\ creative_by_id_prefix[Take(CreativeIdOf(1), IdPrefixLen)] = 2

\* of two creatives with one prefix the first is in the index, the second not
\* being richer
C22_WitnessKept ==
    /\ pc = "match"
    /\ Len(ad_creatives) = 2
    /\ SamePrefix12(CreativeIdOf(1), CreativeIdOf(2))
    /\ CreativeIdOf(2) # ""
    /\ ~IsRicher(ad_creatives[2], ad_creatives[1])
    /\ creative_by_id_prefix[Take(CreativeIdOf(1), IdPrefixLen)] = 1

\* the URLs of a list of backed-up items: of dicts those that have one, of bare
\* strings all
BackedUpUrls(items) ==
    LET hasUrl(item) == item.url # ""
    IN  IF items[1].isdict THEN UrlsOf(SelectSeq(items, hasUrl)) ELSE UrlsOf(items)

(* C23: a result whose matched creative has a non-empty list of backed-up  *)
(* URLs has the URLs of that list, in its order, as its media (the first 7 *)
(* of them), whatever the creative's original items and main image are.    *)
C23_BackedUpUrlsPreferred ==
    \A j \in DOMAIN Results :
        LET r == Results[j] IN
        (r.matched # 0 /\ ad_creatives[r.matched].supabase_carousel_urls # <<>>) =>
            LET urls == BackedUpUrls(ad_creatives[r.matched].supabase_carousel_urls)
            IN  /\ r.carousel_images = Take(urls, MaxCarousel)
                /\ r.image_count = Len(urls)

\* a matched creative with backed-up URLs, original items and a main image
C23_Witness ==
    /\ Returned
    /\ \E j \in DOMAIN Results :
          /\ Results[j].matched # 0
          /\ ad_creatives[Results[j].matched].supabase_carousel_urls # <<>>
          /\ ad_creatives[Results[j].matched].carousel_images # <<>>
          /\ ad_creatives[Results[j].matched].image_url # ""
          /\ Results[j].image_count > MaxCarousel

\* the URLs of the original items that are non-empty and begin with "http", in
\* the order of the items
AbsoluteUrls(items) ==
    LET F[n \in 0..Len(items)] ==
            IF n = 0 THEN <<>>
            ELSE IF items[n].url # "" /\ Len(items[n].url) >= 4
                    /\ SubSeq(items[n].url, 1, 4) = "http"
                 THEN Append(F[n - 1], items[n].url)
                 ELSE F[n - 1]
    IN  F[Len(items)]

\* the results whose matched creative has no backed-up URLs
ResultsFromOriginals ==
    { j \in DOMAIN Results :
        /\ Results[j].matched # 0
        /\ ad_creatives[Results[j].matched].supabase_carousel_urls = <<>> }

C25_InputsUnchanged == [][UNCHANGED <<meta_adsets, ad_creatives>>]_vars

\* the call has returned two results in another order than that of their groups
C25_Witness ==
    /\ Returned
    /\ Len(Results) = 2
    /\ Results[1].group = 2
    /\ Results[2].group = 1
    /\ Results[1].matched # 0

(* C29: in every result is_carousel is true exactly when image_count > 1;  *)
(* image_count is the number of media URLs resolved for the result before  *)
(* the cut to 7, so it is at least the length of carousel_images and       *)
(* equals it exactly when at most 7 URLs were resolved.                    *)
C29_CountBeforeTruncation ==
    \A j \in DOMAIN Results :
        LET r == Results[j]
            resolved == IF r.matched = 0 THEN <<>>
                        ELSE ResolveMedia(ad_creatives[r.matched])
        IN  /\ r.is_carousel = (r.image_count > 1)
            /\ r.image_count = Len(resolved)
            /\ r.image_count >= Len(r.carousel_images)
            /\ (r.image_count = Len(r.carousel_images)) = (Len(resolved) <= MaxCarousel)

\* a result with more URLs counted than kept, beside one with none
C29_Witness ==
    /\ Returned
    /\ \E j \in DOMAIN Results :
          /\ Results[j].image_count > MaxCarousel
          /\ Len(Results[j].carousel_images) = MaxCarousel
          /\ Results[j].is_carousel
    /\ \E j \in DOMAIN Results :
          /\ Results[j].image_count = 0
          /\ ~Results[j].is_carousel

(* C26: in every result the metrics impressions, clicks, purchases, roas   *)
(* and cpm are the values of the originating group (roas and cpm, kept in  *)
(* hundredths in a result, compared in thousandths).                       *)
C26_MetricsPassThrough ==
    \A j \in DOMAIN Results :
        LET r == Results[j] IN
        /\ r.metrics.impressions = GroupOf(r).impressions
        /\ r.metrics.purchases = GroupOf(r).purchases
        /\ "clicks" \in DOMAIN r.metrics
        /\ r.metrics.clicks = GroupOf(r).clicks
        /\ r.metrics.roas * 10 = GroupOf(r).roas
        /\ r.metrics.cpm * 10 = GroupOf(r).cpm

(* C26 as amended: in every result impressions and purchases are the      *)
(* values of the originating group, roas and cpm are the group's values    *)
(* rounded to the nearest hundredth, and the metrics have no clicks field. *)
C26_MetricsCopiedOrRounded ==
    \A j \in DOMAIN Results :
        LET r == Results[j] IN
        /\ r.metrics.impressions = GroupOf(r).impressions
        /\ r.metrics.purchases = GroupOf(r).purchases
        /\ "clicks" \notin DOMAIN r.metrics
        /\ r.metrics.roas * 10 - GroupOf(r).roas \in -5..5
        /\ r.metrics.cpm * 10 - GroupOf(r).cpm \in -5..5

\* a result of a group with clicks whose roas is rounded up and whose cpm is
\* rounded down
C26_Witness ==
    /\ Returned
    /\ \E j \in DOMAIN Results :
          LET r == Results[j] IN
          /\ GroupOf(r).clicks > 0
          /\ GroupOf(r).impressions > 0
          /\ r.metrics.roas * 10 > GroupOf(r).roas
          /\ r.metrics.cpm * 10 < GroupOf(r).cpm

\* the rows a child table holds for a report id, in the order of the table
RowsFor(t, id) == SelectSeq(child_tables[t], LAMBDA r : r.report_id = id)

(* C27: when upload_report has completed a real upload of a report whose   *)
(* row gave an id, each child table holds for that id exactly the records  *)
(* of this upload, none of an earlier upload of the same report, also when *)
(* the report's list for the table is empty.                               *)
C27_ChildRowsOfLastUpload ==
    (AtReturn /\ ~dry_run /\ IsTruthy(report_id)) =>
        \A t \in DOMAIN ChildTables :
            RowsFor(t, report_id) = ChildRecords(CurrentFile.items[t], report_id)

\* the period of a run that has computed it
PeriodOfRun(r) == <<main_runs[r].start_date, main_runs[r].end_date>>

(* C28: runs of daily_report's main for different periods never write to   *)
(* the same output file: the runs that have opened one file for writing    *)
(* all have the same period.                                               *)
C28_PeriodsWriteDistinctFiles ==
    \A name \in DOMAIN output_files :
        \A a, b \in output_files[name].writers : PeriodOfRun(a) = PeriodOfRun(b)

(* C30: when analyze_video_creative has returned, analysis_status of the   *)
(* result is success, partial or error, never the initial pending,         *)
(* whatever the creative carries and whatever each step yields.            *)
C30_StatusSetOnReturn ==
    vpc = "returned" => video_result.analysis_status \in {"success", "partial", "error"}

\* a call has returned an error for a creative with neither video nor thumbnail
C30_Witness ==
    /\ vpc = "returned"
    /\ video_result.analysis_status = "error"
    /\ video_result.analysis_mode = "unknown"
    /\ ~IsTruthy(video_creative.video_url)
    /\ ~IsTruthy(video_creative.video_id)

\* a call whose video downloads failed has returned the analysis of the thumbnail
C30_WitnessThumbnail ==
    /\ vpc = "returned"
    /\ video_result.analysis_status = "partial"
    /\ video_result.analysis_mode = "thumbnail"
    /\ IsTruthy(video_creative.video_url)

====
